---------------------------- MODULE Spec2Model ----------------------------
(***************************************************************************)
(* DisasterEye: the local store (services/storage), the AI gateway         *)
(* (services/geminiService) and the assistant's command dispatcher.        *)
(*                                                                         *)
(* JavaScript values that cross JSON are records [k, v]:                   *)
(*   k = "str"    a plain string (v names it)                              *)
(*   k = "iso"    the string Date.prototype.toISOString gives for time v   *)
(*   k = "isoNC"  another valid spelling of time v that matches            *)
(*                /^\d{4}-\d{2}-\d{2}T/ (e.g. "2024-01-01T10:00Z")         *)
(*   k = "isoBad" a string that matches the pattern and is no date         *)
(*                (e.g. "2024-01-01T flood at the bridge")                 *)
(*   k = "date"   a Date object of time v                                  *)
(*   k = "invalidDate"  a Date object whose time value is NaN              *)
(*   k = "null"   null                                                     *)
(* Times are milliseconds relative to the load of the constants module.    *)
(* Coordinates are degrees scaled by 10000.                                *)
(***************************************************************************)
EXTENDS Integers, Sequences, FiniteSets, TLC

VARIABLES
    storage,    \* localStorage: key -> [present, items]
    calls,      \* the store calls in flight, in the order they started
    last,       \* the store call that settled last: its result and effects
    started,    \* how many store calls have been started
    issued,     \* the identifiers crypto.randomUUID has returned
    apiKey,     \* whether process.env.API_KEY holds a key
    gate,       \* the gateway call under way: its function, position and result
    messages,   \* the assistant's conversation
    isProcessing,
    alertMode,
    isLocating,
    locationRequest,
    userCoords,
    simMode,
    sends,      \* the invocations of handleSend, in the order they started
    hash,       \* window.location.hash
    events,     \* the navigations and the window events, in the order they happened
    timers,     \* the pending setTimeout callbacks that navigate to the map
    locations,  \* the invocations of handleLocationResponse, in the order they started
    geolocation, \* whether the browser has navigator.geolocation
    mapPage,    \* the map view: its reports, isLoading and the reloads in flight
    simulation, \* the simulation view: its intensity in tenths and isPlaying
    newsFeed    \* the news feed: its news, isLive, isLoading and the fetch under way

storeVars == <<storage, calls, last, started, issued>>
gatewayVars == <<apiKey, gate>>
pageVars == <<mapPage, simulation, newsFeed>>
aidenVars ==
    <<messages, isProcessing, alertMode, isLocating, locationRequest, userCoords,
      simMode, sends, hash, events, timers, locations, geolocation>>

\* What the store leaves alone, and what the gateway leaves alone.
notStore == <<apiKey, gate, aidenVars, pageVars>>
notGateway == <<storage, calls, last, started, issued, aidenVars, pageVars>>

vars == <<storeVars, gatewayVars, aidenVars, pageVars>>

\* Bounds of the model.
MaxCalls == 3

-----------------------------------------------------------------------------
\* JavaScript values

Str(n) == [k |-> "str", v |-> n]
Iso(t) == [k |-> "iso", v |-> t]
IsoNC(t) == [k |-> "isoNC", v |-> t]
IsoBad == [k |-> "isoBad", v |-> 0]
DateV(t) == [k |-> "date", v |-> t]
InvalidDate == [k |-> "invalidDate", v |-> 0]
Null == [k |-> "null", v |-> 0]

\* Date.prototype.toJSON as JSON.stringify applies it: a Date becomes its ISO
\* string, an invalid Date becomes null; every other value is written as is.
ToJSON(x) ==
    IF x.k = "date" THEN Iso(x.v)
    ELSE IF x.k = "invalidDate" THEN Null
    ELSE x

\* dateReviver: every string value that matches /^\d{4}-\d{2}-\d{2}T/ becomes
\* new Date(value), whatever key it is stored under.
dateReviver(x) ==
    IF x.k \in {"iso", "isoNC"} THEN DateV(x.v)
    ELSE IF x.k = "isoBad" THEN InvalidDate
    ELSE x

\* No reviver: JSON.parse(raw).
NoReviver(x) == x

-----------------------------------------------------------------------------
\* KEYS and the fixtures

REPORTS == "disasterEye_reports"
RESOURCES == "disasterEye_resources"
ALERTS == "disasterEye_alerts"
NEWS == "disasterEye_news"
CONTACTS == "disasterEye_contacts"

KEYS == {REPORTS, RESOURCES, ALERTS, NEWS, CONTACTS}

Coord(lat, lng) == [lat |-> lat, lng |-> lng]

MAP_CENTER == Coord(340522, -1182437)

MOCK_RESOURCES ==
    << [id |-> "1", name |-> "Central City Hospital", type |-> "HOSPITAL",
        location |-> Coord(340522, -1182437), status |-> "AVAILABLE"],
       [id |-> "2", name |-> "Westside Shelter (HS Gym)", type |-> "SHELTER",
        location |-> Coord(340622, -1182537), status |-> "AVAILABLE"],
       [id |-> "3", name |-> "Downtown Police Precinct", type |-> "POLICE",
        location |-> Coord(340422, -1182337), status |-> "AVAILABLE"] >>

MOCK_REPORTS ==
    << [id |-> "r1", type |-> "FLOOD", description |-> Str(1),
        timestamp |-> DateV(0), coordinates |-> Coord(340550, -1182450),
        verified |-> TRUE],
       [id |-> "r2", type |-> "FIRE", description |-> Str(2),
        timestamp |-> DateV(-3600000), coordinates |-> Coord(340750, -1182650),
        verified |-> FALSE] >>

MOCK_ALERTS ==
    << [id |-> "a1", message |-> Str(3), level |-> "CRITICAL",
        timestamp |-> DateV(0)],
       [id |-> "a2", message |-> Str(4), level |-> "HIGH",
        timestamp |-> DateV(-1800000)] >>

MOCK_NEWS ==
    << [id |-> "n1", title |-> Str(5), summary |-> Str(6), source |-> Str(7),
        timestamp |-> DateV(-7200000), imageUrl |-> Str(8), url |-> Str(9)],
       [id |-> "n2", title |-> Str(10), summary |-> Str(11), source |-> Str(12),
        timestamp |-> DateV(-18000000), imageUrl |-> Str(13), url |-> Str(9)],
       [id |-> "n3", title |-> Str(14), summary |-> Str(15), source |-> Str(16),
        timestamp |-> DateV(-43200000), imageUrl |-> Str(17), url |-> Str(9)] >>

MOCK_CONTACTS ==
    << [id |-> "c1", name |-> "Sarah Connor", relation |-> "Mother",
        phone |-> "+1 (555) 019-2834", email |-> "sarah@example.com"],
       [id |-> "c2", name |-> "Kyle Reese", relation |-> "Partner",
        phone |-> "+1 (555) 123-4567", email |-> "kyle@example.com"] >>

Fixture(key) ==
    CASE key = REPORTS -> MOCK_REPORTS
      [] key = RESOURCES -> MOCK_RESOURCES
      [] key = ALERTS -> MOCK_ALERTS
      [] key = NEWS -> MOCK_NEWS
      [] key = CONTACTS -> MOCK_CONTACTS

-----------------------------------------------------------------------------
\* JSON.stringify and JSON.parse of the collections

\* What JSON.stringify writes for one item: toJSON on every value that is a date.
StringifyItem(key, x) ==
    CASE key = REPORTS ->
            [x EXCEPT !.description = ToJSON(@), !.timestamp = ToJSON(@)]
      [] key = ALERTS -> [x EXCEPT !.message = ToJSON(@), !.timestamp = ToJSON(@)]
      [] key = NEWS ->
            [x EXCEPT !.title = ToJSON(@), !.summary = ToJSON(@),
                      !.source = ToJSON(@), !.timestamp = ToJSON(@),
                      !.imageUrl = ToJSON(@), !.url = ToJSON(@)]
      [] OTHER -> x

\* What JSON.parse reads for one item: the reviver on every string value.
ParseItem(key, x) ==
    CASE key = REPORTS ->
            [x EXCEPT !.description = dateReviver(@), !.timestamp = dateReviver(@)]
      [] key = ALERTS ->
            [x EXCEPT !.message = dateReviver(@), !.timestamp = dateReviver(@)]
      [] key = NEWS ->
            [x EXCEPT !.title = dateReviver(@), !.summary = dateReviver(@),
                      !.source = dateReviver(@), !.timestamp = dateReviver(@),
                      !.imageUrl = dateReviver(@), !.url = dateReviver(@)]
      [] OTHER -> NoReviver(x)

\* JSON.stringify(collection): the text kept in a storage slot.
Stringify(key, items) == [i \in 1..Len(items) |-> StringifyItem(key, items[i])]

\* JSON.parse(raw, dateReviver) for reports, alerts and news; JSON.parse(raw)
\* for resources and contacts.
Parse(key, raw) == [i \in 1..Len(raw) |-> ParseItem(key, raw[i])]

Absent == [present |-> FALSE, items |-> <<>>]
Slot(raw) == [present |-> TRUE, items |-> raw]

-----------------------------------------------------------------------------
\* The inputs the callers pass

\* Omit<UserReport, 'id' | 'timestamp' | 'verified'>: a plain description, one
\* that spells a date, and one that only starts like a date.
ReportInputs ==
    { [type |-> "FIRE", description |-> Str(20), coordinates |-> MAP_CENTER],
      [type |-> "FLOOD", description |-> IsoNC(5),
       coordinates |-> Coord(407128, -740060)],
      [type |-> "STORM", description |-> IsoBad, coordinates |-> MAP_CENTER] }

\* Omit<Contact, 'id'>
ContactInputs ==
    { [name |-> "John Connor", relation |-> "Son", phone |-> "+1 (555) 000-0001",
       email |-> ""] }

Uuid(i) == "uuid-" \o ToString(i)

\* The values crypto.randomUUID can return.
UUIDs == { Uuid(i) : i \in 1..MaxCalls }

\* The identifiers a caller may name: stored ones and one that is stored nowhere.
ReportIds == {"r1", "r2", "no-such-id"} \cup issued
ContactIds == {"c1", "c2", "no-such-id"} \cup issued

-----------------------------------------------------------------------------
\* api.init and the reads

KeyOrder == <<REPORTS, RESOURCES, ALERTS, NEWS, CONTACTS>>

SetItem(key) == "setItem:" \o key
DispatchEvent(name) == "dispatchEvent:" \o name

\* init that appends the fixtures to what is stored
InitAppends(st) ==
    [k \in KEYS |-> Slot(st[k].items \o Stringify(k, Fixture(k)))]

\* init that also seeds a slot whose list is empty
SeedsEmpty(st) ==
    [k \in KEYS |->
        IF ~st[k].present \/ st[k].items = <<>>
        THEN Slot(Stringify(k, Fixture(k))) ELSE st[k]]

\* api.init: a slot is seeded with its fixtures when getItem gives nothing.
ApiInit(st) ==
    [k \in KEYS |->
        IF ~st[k].present THEN Slot(Stringify(k, Fixture(k))) ELSE st[k]]

\* The setItem calls api.init makes, in order.
InitEffects(st) ==
    LET absent == SelectSeq(KeyOrder, LAMBDA k : ~st[k].present)
    IN  [i \in 1..Len(absent) |-> SetItem(absent[i])]

\* raw ? JSON.parse(raw, ...) : []
ReadSlot(key, st) ==
    IF st[key].present THEN Parse(key, st[key].items) ELSE <<>>

Pending == [op |-> "none", arg |-> "", result |-> <<>>, effects |-> <<>>]

\* A call in flight; caller is the handleSend invocation that awaits it, or 0
\* for a call made by a page.
CallBy(op, arg, pc, caller) == [op |-> op, arg |-> arg, pc |-> pc, caller |-> caller]

Remove(s, i) == SubSeq(s, 1, i - 1) \o SubSeq(s, i + 1, Len(s))

Settled(c, result, effects) ==
    [op |-> calls[c].op, arg |-> calls[c].arg, result |-> result,
     effects |-> effects]

\* A caller invokes one of the api functions: the call runs to its first await.
StartCall(op, arg, pc) ==
    /\ started < MaxCalls
    /\ calls' = Append(calls, CallBy(op, arg, pc, 0))
    /\ started' = started + 1
    /\ UNCHANGED <<storage, last, issued>>
    /\ UNCHANGED notStore

\* await delay(ms) of a mutation is over: it calls the getter, which awaits its own.
DelayElapsed(c) ==
    /\ calls[c].pc = "delay"
    /\ calls' = [calls EXCEPT ![c].pc = "read"]
    /\ UNCHANGED <<storage, last, started, issued>>
    /\ UNCHANGED notStore

\* The getter's delay is over: init, getItem, parse, return.
Getter(c, op, key) ==
    /\ calls[c].op = op
    /\ calls[c].pc = "read"
    /\ storage' = ApiInit(storage)
    /\ last' = Settled(c, ReadSlot(key, ApiInit(storage)), InitEffects(storage))
    /\ calls' = Remove(calls, c)
    /\ UNCHANGED <<started, issued>>
    /\ UNCHANGED notStore

getReports(c) == Getter(c, "getReports", REPORTS)
getResources(c) == Getter(c, "getResources", RESOURCES)
getAlerts(c) == Getter(c, "getAlerts", ALERTS)
getNews(c) == Getter(c, "getNews", NEWS)
getContacts(c) == Getter(c, "getContacts", CONTACTS)

\* new Date(): the clock, counted in the store calls that have settled since
\* the fixtures were loaded.
Clock == 1 + started - Len(calls)

-----------------------------------------------------------------------------
\* The mutations

\* { ...report, id: crypto.randomUUID(), timestamp: new Date(), verified: false }
NewReport(report, id, t) ==
    [id |-> id, type |-> report.type, description |-> report.description,
     timestamp |-> DateV(t), coordinates |-> report.coordinates,
     verified |-> FALSE]

\* an identifier source that can repeat itself
RepeatingUUID(used) == {Uuid(1)}

\* crypto.randomUUID(): an identifier it has not returned before. Identifiers
\* are only ever compared for equality, so the model takes the first unused one.
RandomUUID(used) ==
    {Uuid(i) : i \in {j \in 1..MaxCalls : \A h \in 1..(j - 1) : Uuid(h) \in used}}
        \ used

\* What a report mutation does after the read: setItem, then dispatchEvent.
WriteEffects(st, key, event) ==
    InitEffects(st) \o <<SetItem(key), DispatchEvent(event)>>

\* the new report is pushed onto the fixtures, not onto what is stored
PushOntoFixtures(c) ==
    /\ calls[c].op = "createReport"
    /\ calls[c].pc = "read"
    /\ \E id \in RandomUUID(issued) :
        LET newReport == NewReport(calls[c].arg, id, Clock)
            pushed == Append(Fixture(REPORTS), newReport)
        IN  /\ storage' = [ApiInit(storage) EXCEPT
                              ![REPORTS] = Slot(Stringify(REPORTS, pushed))]
            /\ issued' = issued \cup {id}
            /\ last' = Settled(c, newReport,
                               WriteEffects(storage, REPORTS, "db-reports-updated"))
    /\ calls' = Remove(calls, c)
    /\ UNCHANGED started

\* createReport after its delay and the delay of the getReports it awaits.
PushReport(c) ==
    /\ calls[c].op = "createReport"
    /\ calls[c].pc = "read"
    /\ \E id \in RandomUUID(issued) :
        LET reports == ReadSlot(REPORTS, ApiInit(storage))
            newReport == NewReport(calls[c].arg, id, Clock)
            pushed == Append(reports, newReport)
        IN  /\ storage' = [ApiInit(storage) EXCEPT
                              ![REPORTS] = Slot(Stringify(REPORTS, pushed))]
            /\ issued' = issued \cup {id}
            /\ last' = Settled(c, newReport,
                               WriteEffects(storage, REPORTS, "db-reports-updated"))
    /\ calls' = Remove(calls, c)
    /\ UNCHANGED started

\* createReport called by a page, which does nothing more when it settles.
createReport(c) ==
    /\ calls[c].caller = 0
    /\ PushReport(c)
    /\ UNCHANGED notStore

\* the flag is set from the comparison, so every other report loses it
MarkOnly(reports, reportId) ==
    [i \in 1..Len(reports) |->
        [reports[i] EXCEPT !.verified = (reports[i].id = reportId)]]

\* reports.map(r => r.id === reportId ? { ...r, verified: true } : r)
MarkVerified(reports, reportId) ==
    [i \in 1..Len(reports) |->
        IF reports[i].id = reportId
        THEN [reports[i] EXCEPT !.verified = TRUE]
        ELSE reports[i]]

\* verifyReport after its delay and the delay of the getReports it awaits.
SetVerified(c) ==
    /\ calls[c].op = "verifyReport"
    /\ calls[c].pc = "read"
    /\ LET reports == ReadSlot(REPORTS, ApiInit(storage))
           updatedReports == MarkVerified(reports, calls[c].arg)
       IN  /\ storage' = [ApiInit(storage) EXCEPT
                             ![REPORTS] = Slot(Stringify(REPORTS, updatedReports))]
           /\ last' = Settled(c, <<>>,
                              WriteEffects(storage, REPORTS, "db-reports-updated"))
    /\ calls' = Remove(calls, c)
    /\ UNCHANGED <<started, issued>>

\* verifyReport called while no view listens, the caller doing nothing more.
verifyReport(c) ==
    /\ calls[c].caller = 0
    /\ SetVerified(c)
    /\ UNCHANGED notStore

\* { ...contact, id: crypto.randomUUID() }
NewContact(contact, id) ==
    [id |-> id, name |-> contact.name, relation |-> contact.relation,
     phone |-> contact.phone, email |-> contact.email]

addContact(c) ==
    /\ calls[c].op = "addContact"
    /\ calls[c].pc = "read"
    /\ \E id \in RandomUUID(issued) :
        LET contacts == ReadSlot(CONTACTS, ApiInit(storage))
            newContact == NewContact(calls[c].arg, id)
            pushed == Append(contacts, newContact)
        IN  /\ storage' = [ApiInit(storage) EXCEPT
                              ![CONTACTS] = Slot(Stringify(CONTACTS, pushed))]
            /\ issued' = issued \cup {id}
            /\ last' = Settled(c, newContact,
                               InitEffects(storage) \o <<SetItem(CONTACTS)>>)
    /\ calls' = Remove(calls, c)
    /\ UNCHANGED started
    /\ UNCHANGED notStore

\* the first contact is dropped, whatever its id
FilterDropsFirst(contacts, id) == Tail(contacts)

\* contacts.filter(c => c.id !== id)
FilterOut(contacts, id) == SelectSeq(contacts, LAMBDA x : x.id # id)

deleteContact(c) ==
    /\ calls[c].op = "deleteContact"
    /\ calls[c].pc = "read"
    /\ LET contacts == ReadSlot(CONTACTS, ApiInit(storage))
           filtered == FilterOut(contacts, calls[c].arg)
       IN  /\ storage' = [ApiInit(storage) EXCEPT
                             ![CONTACTS] = Slot(Stringify(CONTACTS, filtered))]
           /\ last' = Settled(c, <<>>, InitEffects(storage) \o <<SetItem(CONTACTS)>>)
    /\ calls' = Remove(calls, c)
    /\ UNCHANGED <<started, issued>>
    /\ UNCHANGED notStore

-----------------------------------------------------------------------------
\* The mutations, the key each writes and the event each dispatches after it.
Mutations == {"createReport", "verifyReport", "addContact", "deleteContact"}

WrittenKey(op) == IF op \in {"createReport", "verifyReport"} THEN REPORTS ELSE CONTACTS

\* What localStorage.setItem throws when the quota is exceeded.
QuotaExceeded == [k |-> "throw", v |-> "QuotaExceededError"]

\* the event is dispatched before the write is tried
EventBeforeWrite(st, op) ==
    InitEffects(st) \o <<DispatchEvent("db-reports-updated")>>

\* What a mutation has done when its setItem throws: the statements after the
\* setItem are not reached.
Interrupted(st, op) == InitEffects(st)

\* The keys api.init finds nothing stored for, in the order it tests them.
AbsentKeys(st) == SelectSeq(KeyOrder, LAMBDA k : ~st[k].present)

\* api.init interrupted: the first n absent slots are seeded, the setItem of
\* the next one throws.
SeededUpTo(st, n) ==
    LET absent == AbsentKeys(st)
    IN  [k \in KEYS |->
            IF \E i \in 1..n : absent[i] = k
            THEN Slot(Stringify(k, Fixture(k))) ELSE st[k]]

\* A setItem of api.init throws, in a getter or in the getter a mutation
\* awaits: the slots seeded before it stay, the call rejects, and a mutation
\* reaches none of its own statements.
InitThrows(c) ==
    /\ calls[c].pc = "read"
    /\ \E n \in 0..(Len(AbsentKeys(storage)) - 1) :
        /\ storage' = SeededUpTo(storage, n)
        /\ last' = Settled(c, QuotaExceeded,
                           [i \in 1..n |-> SetItem(AbsentKeys(storage)[i])])
    /\ calls' = Remove(calls, c)
    /\ UNCHANGED <<started, issued>>

\* The setItem of a mutation throws: the getter it awaited has run api.init,
\* the identifier of a new record is already drawn, and the call rejects.
MutationThrows(c) ==
    /\ calls[c].op \in Mutations
    /\ calls[c].pc = "read"
    /\ storage' = ApiInit(storage)
    /\ IF calls[c].op \in {"createReport", "addContact"}
       THEN \E id \in RandomUUID(issued) : issued' = issued \cup {id}
       ELSE issued' = issued
    /\ last' = Settled(c, QuotaExceeded, Interrupted(storage, calls[c].op))
    /\ calls' = Remove(calls, c)
    /\ UNCHANGED started

\* localStorage.setItem throws in a call: in api.init, or at a mutation's write.
WriteThrows(c) == InitThrows(c) \/ MutationThrows(c)

\* A call made by a page rejects because a setItem threw.
SetItemThrows(c) ==
    /\ calls[c].caller = 0
    /\ WriteThrows(c)
    /\ UNCHANGED notStore

\* The store in one tab: every call's steps interleave with every other's.

\* First use: nothing is stored and no call has been made.
StoreInit ==
    /\ storage = [k \in KEYS |-> Absent]
    /\ calls = <<>>
    /\ last = Pending
    /\ started = 0
    /\ issued = {}

\* The assistant as it mounts, the browser showing the view of route.
Greeting == "Identity Verified. Interface initialized. Ready for command."
NoCoords == [given |-> FALSE, lat |-> 0, lng |-> 0]
Message(text, sender) == [text |-> text, sender |-> sender]

AidenMounted(route) ==
    /\ messages = <<Message(Greeting, "ai")>>
    /\ isProcessing = FALSE
    /\ alertMode = FALSE
    /\ isLocating = FALSE
    /\ locationRequest = FALSE
    /\ userCoords = NoCoords
    /\ simMode = "NONE"
    /\ sends = <<>>
    /\ hash = "#" \o route
    /\ events = <<>>
    /\ timers = 0
    /\ locations = <<>>

\* The views this browser session has not rendered: the map, the simulation
\* and the news feed hold no state until their components mount.
NotMounted == [mounted |-> FALSE]

Unmounted ==
    /\ mapPage = NotMounted
    /\ simulation = NotMounted
    /\ newsFeed = NotMounted

Init ==
    /\ StoreInit
    /\ apiKey = TRUE
    /\ geolocation = TRUE
    /\ Unmounted
    /\ gate = [fn |-> "none", pc |-> "idle"]
    /\ AidenMounted("/")

Next ==
    \/ \E op \in {"getReports", "getResources", "getAlerts", "getNews", "getContacts"} :
            StartCall(op, "", "read")
    \/ \E report \in ReportInputs : StartCall("createReport", report, "delay")
    \/ \E id \in ReportIds : StartCall("verifyReport", id, "delay")
    \/ \E contact \in ContactInputs : StartCall("addContact", contact, "delay")
    \/ \E id \in ContactIds : StartCall("deleteContact", id, "delay")
    \/ \E c \in 1..Len(calls) : DelayElapsed(c)
    \/ \E c \in 1..Len(calls) : getReports(c)
    \/ \E c \in 1..Len(calls) : getResources(c)
    \/ \E c \in 1..Len(calls) : getAlerts(c)
    \/ \E c \in 1..Len(calls) : getNews(c)
    \/ \E c \in 1..Len(calls) : getContacts(c)
    \/ \E c \in 1..Len(calls) : createReport(c)
    \/ \E c \in 1..Len(calls) : verifyReport(c)
    \/ \E c \in 1..Len(calls) : addContact(c)
    \/ \E c \in 1..Len(calls) : deleteContact(c)

Spec == Init /\ [][Next]_vars

\* The store in a browser whose localStorage can be full: every setItem, of
\* api.init and of a mutation, succeeds or throws. One input per mutation.
QuotaNext ==
    \/ \E op \in {"getReports", "getResources", "getAlerts", "getNews", "getContacts"} :
            StartCall(op, "", "read")
    \/ \E report \in {r \in ReportInputs : r.type = "FIRE"} :
            StartCall("createReport", report, "delay")
    \/ \E id \in {"r2"} \cup issued : StartCall("verifyReport", id, "delay")
    \/ \E contact \in ContactInputs : StartCall("addContact", contact, "delay")
    \/ \E id \in {"c1"} \cup issued : StartCall("deleteContact", id, "delay")
    \/ \E c \in 1..Len(calls) : DelayElapsed(c)
    \/ \E c \in 1..Len(calls) : getReports(c)
    \/ \E c \in 1..Len(calls) : getResources(c)
    \/ \E c \in 1..Len(calls) : getAlerts(c)
    \/ \E c \in 1..Len(calls) : getNews(c)
    \/ \E c \in 1..Len(calls) : getContacts(c)
    \/ \E c \in 1..Len(calls) : createReport(c)
    \/ \E c \in 1..Len(calls) : verifyReport(c)
    \/ \E c \in 1..Len(calls) : addContact(c)
    \/ \E c \in 1..Len(calls) : deleteContact(c)
    \/ \E c \in 1..Len(calls) : SetItemThrows(c)

SpecQuota == Init /\ [][QuotaNext]_vars

\* Two tabs of one origin share localStorage and run one event loop each. In
\* a tab nothing runs between the read a mutation awaits and its write (the
\* continuation is a microtask); the other tab's reads and writes can.
Tabs == {1, 2}

\* A mutation in flight in a tab: what it has read and what it has done.
TabCall(op, arg, tab) ==
    [op |-> op, arg |-> arg, pc |-> "delay", caller |-> 0, tab |-> tab,
     read |-> <<>>, effects |-> <<>>]

TabStart(tab, op, arg) ==
    /\ started < MaxCalls
    /\ calls' = Append(calls, TabCall(op, arg, tab))
    /\ started' = started + 1
    /\ UNCHANGED <<storage, last, issued>>
    /\ UNCHANGED notStore

\* The getter a mutation awaits: init, getItem, parse.
TabRead(c) ==
    /\ calls[c].pc = "read"
    /\ \A d \in 1..Len(calls) : calls[d].tab = calls[c].tab => calls[d].pc # "write"
    /\ storage' = ApiInit(storage)
    /\ calls' = [calls EXCEPT
                    ![c].pc = "write",
                    ![c].read = ReadSlot(WrittenKey(calls[c].op), ApiInit(storage)),
                    ![c].effects = InitEffects(storage)]
    /\ UNCHANGED <<last, started, issued>>
    /\ UNCHANGED notStore

\* the writer reads the collection again when it writes
Reread(c, st) == ReadSlot(WrittenKey(calls[c].op), st)

\* The collection a mutation changes and writes back: the one it read.
Basis(c, st) == calls[c].read

\* The change each mutation makes to the collection.
Changed(op, arg, items, id, t) ==
    CASE op = "createReport" -> Append(items, NewReport(arg, id, t))
      [] op = "verifyReport" -> MarkVerified(items, arg)
      [] op = "addContact" -> Append(items, NewContact(arg, id))
      [] op = "deleteContact" -> FilterOut(items, arg)

\* The rest of the mutation: the change, setItem of the whole collection and,
\* for the reports, the event.
TabWrite(c) ==
    /\ calls[c].pc = "write"
    /\ \E id \in RandomUUID(issued) :
        LET op == calls[c].op
            key == WrittenKey(op)
            fresh == op \in {"createReport", "addContact"}
            written == Changed(op, calls[c].arg, Basis(c, storage), id, Clock)
        IN  /\ storage' = [storage EXCEPT ![key] = Slot(Stringify(key, written))]
            /\ issued' = IF fresh THEN issued \cup {id} ELSE issued
            /\ last' = Settled(c, IF fresh THEN written[Len(written)] ELSE <<>>,
                               calls[c].effects \o <<SetItem(key)>> \o
                                 IF key = REPORTS
                                 THEN <<DispatchEvent("db-reports-updated")>>
                                 ELSE <<>>)
    /\ calls' = Remove(calls, c)
    /\ UNCHANGED started
    /\ UNCHANGED notStore

TabsNext ==
    \/ \E tab \in Tabs :
        \/ \E report \in {r \in ReportInputs : r.type = "FIRE"} :
                TabStart(tab, "createReport", report)
        \/ \E id \in {"r2"} \cup issued : TabStart(tab, "verifyReport", id)
        \/ \E contact \in ContactInputs : TabStart(tab, "addContact", contact)
        \/ \E id \in {"c1"} \cup issued : TabStart(tab, "deleteContact", id)
    \/ \E c \in 1..Len(calls) : DelayElapsed(c)
    \/ \E c \in 1..Len(calls) : TabRead(c)
    \/ \E c \in 1..Len(calls) : TabWrite(c)

SpecTabs == Init /\ [][TabsNext]_vars

-----------------------------------------------------------------------------
\* The AI gateway (geminiService)

\* Bounds of the gateway's inputs.
MaxShort == 3
MaxUrls == 12

\* unique.slice(0, 10)
NewsCap == 10

\* A field the model's answer does not carry.
Undef == "<undefined>"

\* A uri of a grounding chunk: absent, a string new URL() rejects, or a URL.
NoUri == [given |-> FALSE, valid |-> FALSE, www |-> FALSE, n |-> 0]
BadUri == [given |-> TRUE, valid |-> FALSE, www |-> FALSE, n |-> 0]
Uri(n) == [given |-> TRUE, valid |-> TRUE, www |-> (n % 2 = 1), n |-> n]

\* chunk.web with its uri and title; web = FALSE is a chunk of another kind.
Chunk(web, uri, title) == [web |-> web, uri |-> uri, title |-> title]

ChunkKinds ==
    { Chunk(TRUE, Uri(1), "first"), Chunk(TRUE, Uri(1), "second"),
      Chunk(TRUE, Uri(2), "first"), Chunk(FALSE, NoUri, Undef),
      Chunk(TRUE, Uri(2), Undef), Chunk(TRUE, BadUri, "first") }

\* n chunks of n different URLs, and the URL q once more, after the first p.
LongList(n, p, q) ==
    [i \in 1..(n + 1) |->
        IF i <= p THEN Chunk(TRUE, Uri(i), "first")
        ELSE IF i = p + 1 THEN Chunk(TRUE, Uri(q), "second")
        ELSE Chunk(TRUE, Uri(i - 1), "first")]

\* response.candidates?.[0]?.groundingMetadata?.groundingChunks: every short
\* list of chunks, and long lists that reach the cap.
ChunkLists ==
    UNION { [1..n -> ChunkKinds] : n \in 0..MaxShort }
      \cup { LongList(n, p, q) : n \in (NewsCap - 1)..MaxUrls,
                                 p \in {2, NewsCap - 1}, q \in {1, 2} }

\* The texts a response can carry: none, prose, the JSON of a PredictionResult
\* and JSON of another shape.
NoText == ""
Prose == "Evacuate to high ground."
PredictionJson == "{\"disasterType\":\"FLOOD\",...}"
OtherJson == "{\"unexpected\":true}"

JsonParses(text) == text \in {PredictionJson, OtherJson}

\* Strings the program takes apart are sequences of characters.
Join(chars) ==
    LET F[i \in 0..Len(chars)] == IF i = 0 THEN "" ELSE F[i - 1] \o chars[i]
    IN  F[Len(chars)]

\* the route is compared as the model wrote it
NoTrim(chars) == chars

\* String.prototype.trim
Trim(chars) ==
    LET ink == { i \in 1..Len(chars) : chars[i] # " " }
    IN  IF ink = {} THEN <<>>
        ELSE SubSeq(chars, CHOOSE i \in ink : \A j \in ink : i <= j,
                           CHOOSE i \in ink : \A j \in ink : i >= j)

\* String.prototype.replace(pattern, '') with a one-character pattern: the
\* first occurrence is removed.
RemoveFirst(chars, ch) ==
    LET at == { i \in 1..Len(chars) : chars[i] = ch }
    IN  IF at = {} THEN chars
        ELSE Remove(chars, CHOOSE i \in at : \A j \in at : i <= j)

\* The characters of the strings the model can name as a route: the eight
\* listed ones, a listed one with blanks around it, one that is not listed,
\* and the empty string (or no route at all).
Chars(s) ==
    CASE s = "/" -> <<"/">>
      [] s = "/map" -> <<"/", "m", "a", "p">>
      [] s = "/prediction" -> <<"/", "p", "r", "e", "d", "i", "c", "t", "i", "o", "n">>
      [] s = "/simulation" -> <<"/", "s", "i", "m", "u", "l", "a", "t", "i", "o", "n">>
      [] s = "/emergency-plan" ->
            <<"/", "e", "m", "e", "r", "g", "e", "n", "c", "y", "-", "p", "l", "a", "n">>
      [] s = "/ar-view" -> <<"/", "a", "r", "-", "v", "i", "e", "w">>
      [] s = "/settings" -> <<"/", "s", "e", "t", "t", "i", "n", "g", "s">>
      [] s = "/contacts" -> <<"/", "c", "o", "n", "t", "a", "c", "t", "s">>
      [] s = " /settings " -> <<" ", "/", "s", "e", "t", "t", "i", "n", "g", "s", " ">>
      [] s = "/nonexistent" ->
            <<"/", "n", "o", "n", "e", "x", "i", "s", "t", "e", "n", "t">>
      [] s = "" -> <<>>

validRoutes ==
    { Chars(r) : r \in {"/", "/map", "/prediction", "/simulation",
                        "/emergency-plan", "/ar-view", "/settings", "/contacts"} }

\* `Routing to ${targetRoute.replace('/', '') || 'Dashboard'}.`
RoutingTo(targetRoute) ==
    LET name == RemoveFirst(targetRoute, "/")
    IN  "Routing to " \o (IF name = <<>> THEN "Dashboard" ELSE Join(name)) \o "."


\* The tool calls the model can answer with (args as the model wrote them).
NoArgs ==
    [action |-> Undef, route |-> Chars(""), alertActive |-> Undef,
     simulationCommand |-> Undef, intensityValue |-> Undef, mapCommand |-> Undef,
     type |-> Undef, description |-> Undef]

ToolCall(name, args) == [name |-> name, args |-> args]

\* JavaScript's true, as the value of an argument that may be absent.
JsTrue == "true"

ControlApp(args) == ToolCall("controlApp", args)

Navigate(route) == ControlApp([NoArgs EXCEPT !.action = "NAVIGATE", !.route = route])

\* What the awaited call of a capability does: it throws, it resolves with
\* nothing, or it resolves with a response.
Thrown == [kind |-> "throw", text |-> NoText, functionCalls |-> <<>>,
           grounded |-> FALSE, chunks |-> <<>>]
Nothing == [Thrown EXCEPT !.kind = "undefined"]
Response(text, functionCalls) ==
    [Thrown EXCEPT !.kind = "response", !.text = text,
                   !.functionCalls = functionCalls]
Grounded(chunks) ==
    [Thrown EXCEPT !.kind = "response", !.grounded = TRUE, !.chunks = chunks]

\* What the model can ask for in one answer of a chat.
ToolCalls ==
    { Navigate(Chars("/map")), Navigate(Chars("/")), Navigate(Chars(" /settings ")),
      Navigate(Chars("/nonexistent")), Navigate(Chars("")),
      ControlApp([NoArgs EXCEPT !.action = "SET_ALERT_MODE", !.alertActive = JsTrue]),
      ControlApp([NoArgs EXCEPT !.action = "SET_ALERT_MODE"]),
      ControlApp([NoArgs EXCEPT !.action = "SET_ALERT_MODE", !.alertActive = "'true'"]),
      ControlApp([NoArgs EXCEPT !.action = "SIMULATION_CONTROL",
                                !.simulationCommand = "START",
                                !.intensityValue = "50"]),
      ControlApp([NoArgs EXCEPT !.action = "SIMULATION_CONTROL",
                                !.simulationCommand = "STOP"]),
      ControlApp([NoArgs EXCEPT !.action = "SIMULATION_CONTROL"]),
      ControlApp([NoArgs EXCEPT !.action = "MAP_CONTROL", !.mapCommand = "ZOOM_IN"]),
      ControlApp([NoArgs EXCEPT !.action = "MAP_CONTROL", !.mapCommand = "SPIN"]),
      ControlApp([NoArgs EXCEPT !.action = "OPEN_REPORT"]),
      ToolCall("getUserLocation", NoArgs),
      ToolCall("reportIncident",
               [NoArgs EXCEPT !.type = "FIRE", !.description = Str(21)]) }

\* The outcomes of chat.sendMessage: no tool call, one, or two.
ChatOutcomes ==
    {Thrown, Nothing} \cup
    { Response(t, fc) :
        t \in {NoText, Prose},
        fc \in {<<>>, <<Navigate(Chars("/contacts")), Navigate(Chars("/settings"))>>}
                 \cup { <<call>> : call \in ToolCalls } }

\* The outcomes of the awaited call of each capability.
Outcomes(fn) ==
    CASE fn = "fetchRealTimeNews" ->
            {Thrown, Nothing, Response(Prose, <<>>)} \cup
            { Grounded(c) : c \in ChunkLists }
      [] fn = "chatWithAssistant" -> ChatOutcomes
      [] OTHER ->
            {Thrown, Nothing} \cup
            { Response(t, <<>>) : t \in {NoText, Prose, PredictionJson, OtherJson} }

\* a client is built whether or not there is a key
AlwaysClient(key) == TRUE

\* initializeGemini: null without a key, else a client.
initializeGemini(key) == key

\* What the try block evaluated to: a value, or an exception raised in it.
Value(v) == [raised |-> FALSE, value |-> v]
Raised(v) == [raised |-> TRUE, value |-> v]

\* the exception leaves the function
NoCatch(body, onError) ==
    [threw |-> body.raised, logged |-> FALSE, value |-> body.value]

\* try { ... } catch (e) { console.error(e); return onError; }
TryCatch(body, onError) ==
    IF body.raised
    THEN [threw |-> FALSE, logged |-> TRUE, value |-> onError]
    ELSE [threw |-> FALSE, logged |-> FALSE, value |-> body.value]

\* The parsed JSON value of a text.
Json(text) == [k |-> "json", v |-> text]
JsNull == [k |-> "null", v |-> ""]

\* analyzeDisasterImage after initializeGemini
AnalyzeDisasterImage(ext) ==
    TryCatch(IF ext.kind # "response" THEN Raised(JsNull)
             ELSE IF ext.text # NoText
                  THEN IF JsonParses(ext.text) THEN Value(Json(ext.text))
                       ELSE Raised(JsNull)
                  ELSE Value(JsNull),
             JsNull)

\* generateEmergencyPlanText after initializeGemini
GenerateEmergencyPlanText(ext) ==
    TryCatch(IF ext.kind # "response" THEN Raised("")
             ELSE Value(IF ext.text # NoText THEN ext.text
                        ELSE "Could not generate plan."),
             "Error generating plan.")

NoCall == ToolCall(Undef, NoArgs)

ChatResponse(text, functionCall, grounded) ==
    [text |-> text, functionCall |-> functionCall, groundingMetadata |-> grounded]

\* every tool call is acted on: the last one wins
LastCall(functionCalls) ==
    IF Len(functionCalls) > 0 THEN functionCalls[Len(functionCalls)] ELSE NoCall

\* functionCalls && functionCalls.length > 0 ? functionCalls[0] : undefined
FirstCall(functionCalls) ==
    IF Len(functionCalls) > 0 THEN functionCalls[1] ELSE NoCall

\* chatWithAssistant after initializeGemini
ChatWithAssistant(ext) ==
    TryCatch(IF ext.kind # "response" THEN Raised(ChatResponse("", NoCall, FALSE))
             ELSE Value(ChatResponse(ext.text, FirstCall(ext.functionCalls),
                                     ext.grounded)),
             ChatResponse("Communication error.", NoCall, FALSE))

\* chunks.filter(chunk => chunk.web?.uri && chunk.web?.title)
WebChunks(chunks) ==
    SelectSeq(chunks, LAMBDA c : c.web /\ c.uri.given /\ c.title # Undef)

\* new URL(uri).hostname.replace('www.', '')
Hostname(uri) == <<"host", uri.n>>

NewsItemOf(chunk, index, t) ==
    [id |-> <<"live", index, t>>, title |-> chunk.title,
     summary |-> "Live report retrieved from global monitoring network.",
     source |-> Hostname(chunk.uri), timestamp |-> DateV(t), url |-> chunk.uri]

\* findIndex(t => t.url === item.url)
FindIndex(items, url) ==
    CHOOSE i \in 1..Len(items) :
        /\ items[i].url = url
        /\ \A j \in 1..(i - 1) : items[j].url # url

\* the last item of each url is kept
DeduplicateLast(items) ==
    LET keep == { i \in 1..Len(items) :
                    \A j \in (i + 1)..Len(items) : items[j].url # items[i].url }
        F[i \in 0..Len(items)] ==
            IF i = 0 THEN <<>>
            ELSE IF i \in keep THEN Append(F[i - 1], items[i]) ELSE F[i - 1]
    IN  F[Len(items)]

\* items.filter((item, index, self) => index === self.findIndex(...))
Deduplicate(items) ==
    LET keep == { i \in 1..Len(items) : i = FindIndex(items, items[i].url) }
        F[i \in 0..Len(items)] ==
            IF i = 0 THEN <<>>
            ELSE IF i \in keep THEN Append(F[i - 1], items[i]) ELSE F[i - 1]
    IN  F[Len(items)]

\* slice(0, 10)
Slice(items, n) == SubSeq(items, 1, IF Len(items) < n THEN Len(items) ELSE n)

\* fetchRealTimeNews after initializeGemini
FetchRealTimeNews(ext, t) ==
    TryCatch(IF ext.kind # "response" THEN Raised(<<>>)
             ELSE IF ~ext.grounded THEN Value(<<>>)
             ELSE LET web == WebChunks(ext.chunks)
                  IN  IF \E i \in 1..Len(web) : ~web[i].uri.valid
                      THEN Raised(<<>>)
                      ELSE Value(Slice(Deduplicate(
                             [i \in 1..Len(web) |-> NewsItemOf(web[i], i - 1, t)]),
                             NewsCap)),
             <<>>)

Capabilities ==
    {"analyzeDisasterImage", "generateEmergencyPlanText", "chatWithAssistant",
     "fetchRealTimeNews"}

\* What a capability returns when initializeGemini gives no client.
Unavailable(fn) ==
    CASE fn = "analyzeDisasterImage" -> JsNull
      [] fn = "generateEmergencyPlanText" -> "AI Service Unavailable"
      [] fn = "chatWithAssistant" -> ChatResponse("System offline.", NoCall, FALSE)
      [] fn = "fetchRealTimeNews" -> <<>>

\* What a capability makes of the outcome of its awaited call.
Outcome(fn, ext) ==
    CASE fn = "analyzeDisasterImage" -> AnalyzeDisasterImage(ext)
      [] fn = "generateEmergencyPlanText" -> GenerateEmergencyPlanText(ext)
      [] fn = "chatWithAssistant" -> ChatWithAssistant(ext)
      [] fn = "fetchRealTimeNews" -> FetchRealTimeNews(ext, Clock)

Idle == [fn |-> "none", pc |-> "idle", sent |-> 0, ext |-> Thrown,
         threw |-> FALSE, logged |-> FALSE, result |-> <<>>]

\* A capability is called: without a client it returns its fixed value, with
\* one it sends its request and awaits the answer.
Invoke(fn) ==
    /\ gate.pc # "awaiting"
    /\ gate' = IF ~initializeGemini(apiKey)
               THEN [Idle EXCEPT !.fn = fn, !.pc = "done", !.logged = TRUE,
                                 !.result = Unavailable(fn)]
               ELSE [Idle EXCEPT !.fn = fn, !.pc = "awaiting", !.sent = 1]
    /\ UNCHANGED apiKey
    /\ UNCHANGED notGateway

\* The awaited call settles and the capability returns (or throws).
Settle(fn) ==
    /\ gate.pc = "awaiting"
    /\ gate.fn = fn
    /\ \E ext \in Outcomes(fn) :
        LET out == Outcome(fn, ext)
        IN  gate' = [gate EXCEPT !.pc = "done", !.ext = ext, !.threw = out.threw,
                                 !.logged = out.logged, !.result = out.value]
    /\ UNCHANGED apiKey
    /\ UNCHANGED notGateway

\* The build either supplied an API key or did not.
GatewayInit ==
    /\ StoreInit
    /\ apiKey \in BOOLEAN
    /\ gate = Idle
    /\ geolocation = TRUE
    /\ Unmounted
    /\ AidenMounted("/")

GatewayNext ==
    \/ \E fn \in Capabilities : Invoke(fn)
    \/ \E fn \in Capabilities : Settle(fn)

SpecGateway == GatewayInit /\ [][GatewayNext]_vars

-----------------------------------------------------------------------------
\* The assistant's command dispatcher (Aiden.handleSend)
\*
\* Speech output and the reaction and guiding animations only present what the
\* state below holds; they are not part of the model.

\* Bound: how many times handleSend is invoked.
MaxTurns == 2

\* What a user types or says: words and blanks.
UserTexts == { <<" ", " ">>, <<"Flood", " ", "near", " ", "me">> }

\* String.prototype.toLowerCase, word by word
ToLowerCase(word) == IF word = "Flood" THEN "flood" ELSE word

\* String.prototype.includes
Includes(text, word) ==
    \E i \in 1..Len(text) :
        \/ ToLowerCase(text[i]) = word
        \/ <<ToLowerCase(text[i]), word>> \in {<<"wildfire", "fire">>}

\* The keyword detection of handleSend: four tests in this order.
Keywords(mode, text) ==
    LET flood == IF Includes(text, "flood") THEN "FLOOD" ELSE mode
        fire == IF Includes(text, "fire") \/ Includes(text, "wildfire")
                THEN "FIRE" ELSE flood
        storm == IF Includes(text, "storm") \/ Includes(text, "hurricane")
                 THEN "STORM" ELSE fire
    IN  IF Includes(text, "stop") \/ Includes(text, "clear simulation")
        THEN "NONE" ELSE storm

\* messagesRef.current without the greeting, as the gateway's history
History(msgs) ==
    LET kept == IF Len(msgs) > 0 /\ msgs[1].sender = "ai" THEN Tail(msgs) ELSE msgs
    IN  [i \in 1..Len(kept) |->
            [role |-> IF kept[i].sender = "user" THEN "user" ELSE "model",
             text |-> kept[i].text]]

\* navigate(route) and window.dispatchEvent(new CustomEvent(name, {detail}))
Hash(route) == "#" \o Join(route)
Navigation(route) == [kind |-> "navigate", name |-> Join(route), detail |-> <<>>]
WindowEvent(name, detail) == [kind |-> "event", name |-> name, detail |-> detail]

\* `${x}` of a template literal
Interpolate(x) == IF x = Undef THEN "undefined" ELSE x

\* a || b for strings
OrElse(a, b) == IF a # "" THEN a ELSE b

\* a tool call without text is acknowledged in the conversation
Acknowledged(response) ==
    <<Message(OrElse(response.text, "Command executed."), "ai")>>

\* if (response.text) setMessages(prev => [...prev, {text: response.text, ...}])
Narration(response) ==
    IF response.text # "" THEN <<Message(response.text, "ai")>> ELSE <<>>

\* the acknowledgement is appended whether or not there is narration
AlwaysFeedback(response, feedbackText) == <<Message(feedbackText, "ai")>>

\* if (!response.text && feedbackText) setMessages(prev => [...prev, ...])
Feedback(response, feedbackText) ==
    IF response.text = "" /\ feedbackText # ""
    THEN <<Message(feedbackText, "ai")>> ELSE <<>>

\* every broadcast is for the simulation view
AlwaysSimulation(args) == Chars("/simulation")

\* The actions that broadcast to a page, the route of that page, whether the
\* dispatcher navigates there first, the event and the acknowledgement.
PageOf(args) ==
    IF args.action = "SIMULATION_CONTROL" THEN Chars("/simulation") ELSE Chars("/map")

\* the dispatcher never navigates before it broadcasts
NeverNavigates(args, at) == FALSE

AutoNavigates(args, at) ==
    IF args.action = "SIMULATION_CONTROL"
    THEN args.simulationCommand = "START" /\ at # "#/simulation"
    ELSE at # "#/map"

Announcement(args) ==
    CASE args.action = "SIMULATION_CONTROL" ->
            WindowEvent("aiden-sim", <<args.simulationCommand, args.intensityValue>>)
      [] args.action = "MAP_CONTROL" -> WindowEvent("aiden-map", <<args.mapCommand>>)
      [] args.action = "OPEN_REPORT" -> WindowEvent("aiden-report-ui", <<>>)

Synthesized(args) ==
    CASE args.action = "SIMULATION_CONTROL" ->
            "Simulation protocol " \o Interpolate(args.simulationCommand) \o " executed."
      [] args.action = "MAP_CONTROL" ->
            "Map view updating: " \o Interpolate(args.mapCommand) \o "."
      [] args.action = "OPEN_REPORT" -> "Opening report interface."

\* { lat: 34.0522, lng: -118.2437 }
DefaultCoords == Coord(340522, -1182437)

\* `${args.description}`
Display(x) == x.k \o ":" \o ToString(x.v)

\* What a step of handleSend leaves of the assistant, given what it changes.
Step(h, turn, msgs, processing, alert, location, at, evs) ==
    /\ sends' = [sends EXCEPT ![h] = turn]
    /\ messages' = msgs
    /\ isProcessing' = processing
    /\ alertMode' = alert
    /\ locationRequest' = location
    /\ hash' = at
    /\ events' = evs
    /\ UNCHANGED <<isLocating, userCoords, simMode, locations, geolocation, pageVars>>
    /\ UNCHANGED <<apiKey, gate>>

\* handleSend(text) up to its await of chatWithAssistant. Without a client the
\* gateway's promise is already resolved and the handler goes on at once.
Send ==
    /\ Len(sends) < MaxTurns
    /\ \E text \in UserTexts :
        IF Trim(text) = <<>>
        THEN UNCHANGED vars
        ELSE LET userMsg == Message(Join(text), "user")
                 turn == [pc |-> "chat", text |-> Join(text),
                          history |-> History(messages), coords |-> userCoords,
                          response |-> ChatResponse(NoText, NoCall, FALSE),
                          feedbackText |-> ""]
                 offline == Unavailable("chatWithAssistant")
             IN  /\ simMode' = Keywords(simMode, text)
                 /\ IF initializeGemini(apiKey)
                    THEN /\ sends' = Append(sends, turn)
                         /\ messages' = Append(messages, userMsg)
                         /\ isProcessing' = TRUE
                    ELSE /\ sends' = Append(sends, [turn EXCEPT !.pc = "done",
                                                               !.response = offline])
                         /\ messages' = Append(messages, userMsg) \o Narration(offline)
                         /\ isProcessing' = FALSE
                 /\ UNCHANGED <<alertMode, isLocating, locationRequest, userCoords,
                                hash, events, timers, locations, geolocation, pageVars>>
                 /\ UNCHANGED <<storeVars, gatewayVars>>

\* controlApp with action NAVIGATE
NavigateBranch(h, response, args) ==
    LET targetRoute == Trim(args.route)
        go == args.route # Chars("") /\ targetRoute \in validRoutes
        feedbackText == IF go THEN OrElse(response.text, RoutingTo(targetRoute))
                        ELSE response.text
    IN  Step(h, [sends[h] EXCEPT !.pc = "done", !.response = response,
                                 !.feedbackText = feedbackText],
             messages \o Narration(response) \o Feedback(response, feedbackText),
             FALSE, alertMode, locationRequest,
             IF go THEN Hash(targetRoute) ELSE hash,
             IF go THEN Append(events, Navigation(targetRoute)) ELSE events)

\* controlApp with action SET_ALERT_MODE
AlertBranch(h, response, args) ==
    LET isActive == args.alertActive = JsTrue
        feedbackText == OrElse(response.text, IF isActive THEN "Red Alert activated."
                                              ELSE "Alerts cancelled.")
    IN  Step(h, [sends[h] EXCEPT !.pc = "done", !.response = response,
                                 !.feedbackText = feedbackText],
             messages \o Narration(response) \o Feedback(response, feedbackText),
             FALSE, isActive, locationRequest, hash, events)

\* controlApp with an action that broadcasts: either the page is showing and
\* the event is dispatched at once, or the dispatcher navigates and awaits the
\* settle delay of 500 ms.
BroadcastBranch(h, response, args) ==
    IF AutoNavigates(args, hash)
    THEN Step(h, [sends[h] EXCEPT !.pc = "settle", !.response = response,
                                  !.feedbackText = response.text],
              messages \o Narration(response), isProcessing, alertMode,
              locationRequest, Hash(PageOf(args)),
              Append(events, Navigation(PageOf(args))))
    ELSE LET feedbackText == OrElse(response.text, Synthesized(args))
         IN  Step(h, [sends[h] EXCEPT !.pc = "done", !.response = response,
                                      !.feedbackText = feedbackText],
                  messages \o Narration(response) \o Feedback(response, feedbackText),
                  FALSE, alertMode, locationRequest, hash,
                  Append(events, Announcement(args)))

\* controlApp with any other action, and a response with no tool call or an
\* unknown one: only the narration is shown.
NoBranch(h, response) ==
    Step(h, [sends[h] EXCEPT !.pc = "done", !.response = response,
                             !.feedbackText = response.text],
         messages \o Narration(response) \o Feedback(response, response.text),
         FALSE, alertMode, locationRequest, hash, events)

\* getUserLocation: the request is shown and handleSend returns.
LocationBranch(h, response) ==
    LET requestMsg ==
            OrElse(response.text,
                   "I need to access your GPS coordinates to find accurate local information.")
    IN  Step(h, [sends[h] EXCEPT !.pc = "done", !.response = response],
             messages \o Narration(response) \o <<Message(requestMsg, "ai")>>,
             FALSE, alertMode, TRUE, hash, events)

\* reportIncident: the report is handed to api.createReport, which is awaited.
ReportBranch(h, response, args) ==
    LET report == [type |-> args.type, description |-> args.description,
                   coordinates |-> IF sends[h].coords # NoCoords
                                   THEN sends[h].coords ELSE DefaultCoords]
    IN  /\ Step(h, [sends[h] EXCEPT !.pc = "filing", !.response = response],
                messages \o Narration(response), isProcessing, alertMode,
                locationRequest, hash, events)
        /\ calls' = Append(calls, CallBy("createReport", report, "delay", h))
        /\ started' = started + 1
        /\ UNCHANGED <<storage, last, issued, timers>>

\* handleSend from the answer of chatWithAssistant to its next await or its end.
Respond(h) ==
    /\ sends[h].pc = "chat"
    /\ \E ext \in ChatOutcomes :
        LET response == ChatWithAssistant(ext).value
            name == response.functionCall.name
            args == response.functionCall.args
        IN  IF name = "reportIncident" THEN ReportBranch(h, response, args)
            ELSE /\ UNCHANGED <<storeVars, timers>>
                 /\ CASE name = "getUserLocation" -> LocationBranch(h, response)
                      [] name = "controlApp" /\ args.action = "NAVIGATE" ->
                            NavigateBranch(h, response, args)
                      [] name = "controlApp" /\ args.action = "SET_ALERT_MODE" ->
                            AlertBranch(h, response, args)
                      [] /\ name = "controlApp"
                         /\ args.action \in
                              {"SIMULATION_CONTROL", "MAP_CONTROL", "OPEN_REPORT"} ->
                            BroadcastBranch(h, response, args)
                      [] OTHER -> NoBranch(h, response)

\* The settle delay is over: the event is dispatched and the turn ends.
RouteSettled(h) ==
    /\ sends[h].pc = "settle"
    /\ LET response == sends[h].response
           args == response.functionCall.args
           feedbackText == OrElse(sends[h].feedbackText, Synthesized(args))
       IN  Step(h, [sends[h] EXCEPT !.pc = "done", !.feedbackText = feedbackText],
                messages \o Feedback(response, feedbackText), FALSE, alertMode,
                locationRequest, hash, Append(events, Announcement(args)))
    /\ UNCHANGED <<storeVars, timers>>

\* api.createReport settles: the acknowledgement is shown, the navigation to the
\* map is set for 3 s later and the turn ends.
ReportFiled(h) ==
    /\ sends[h].pc = "filing"
    /\ \E c \in 1..Len(calls) :
        /\ calls[c].caller = h
        /\ PushReport(c)
    /\ LET response == sends[h].response
           args == response.functionCall.args
           feedback == OrElse(response.text,
                              "Report filed: " \o Interpolate(args.type) \o " - "
                                \o Display(args.description)
                                \o ". Broadcasted to local network.")
       IN  Step(h, [sends[h] EXCEPT !.pc = "done"],
                Append(messages, Message(feedback, "ai")), FALSE, alertMode,
                locationRequest, hash, events)
    /\ timers' = timers + 1

\* setTimeout(() => navigate('/map'), 3000) fires.
NavigateTimer ==
    /\ timers > 0
    /\ timers' = timers - 1
    /\ hash' = Hash(Chars("/map"))
    /\ events' = Append(events, Navigation(Chars("/map")))
    /\ UNCHANGED <<messages, isProcessing, alertMode, isLocating, locationRequest,
                   userCoords, simMode, sends, locations, geolocation, pageVars>>
    /\ UNCHANGED <<storeVars, gatewayVars>>

\* The positions navigator.geolocation.getCurrentPosition can report.
Positions == {Coord(377749, -1224194)}

\* The notice each path of handleLocationResponse sends to the gateway.
Notice(path, coords) ==
    CASE path = "denied" ->
            "User denied location access. Proceed without location data."
      [] path = "unsupported" ->
            "System Update: Geolocation is not supported by this browser."
      [] path = "failed" -> "System Update: GPS signal lookup failed."
      [] path = "resolved" ->
            "System Update: User's confirmed location is Latitude "
              \o ToString(coords.lat) \o ", Longitude " \o ToString(coords.lng)
              \o ". Please proceed with the user's previous request using this"
              \o " location context (e.g. check for nearby resources or risks)."

\* The invocations of handleLocationResponse once invocation l is rec.
Put(l, rec) ==
    IF l > Len(locations) THEN Append(locations, rec)
    ELSE [locations EXCEPT ![l] = rec]

\* The gateway's answer is taken: its text is shown if it has one and each
\* path resets the flags its code resets (the denial resets isProcessing, the
\* try block's finally resets both, the unsupported path neither).
Answer(l, rec, response, processing, locating) ==
    /\ locations' = Put(l, [rec EXCEPT !.pc = "done", !.response = response])
    /\ messages' = messages \o Narration(response)
    /\ isProcessing' = IF rec.path = "unsupported" THEN processing ELSE FALSE
    /\ isLocating' = IF rec.path \in {"resolved", "failed"} THEN FALSE ELSE locating

\* await chatWithAssistant(history, msg, coords). Without a client the
\* gateway's promise is already resolved and the handler goes on at once.
Ask(l, rec, coords, processing, locating) ==
    LET call == [history |-> rec.history, message |-> Notice(rec.path, coords),
                 userLocation |-> coords]
        asking == [rec EXCEPT !.asked = Append(@, call)]
    IN  IF initializeGemini(apiKey)
        THEN /\ locations' = Put(l, [asking EXCEPT !.pc = "chat"])
             /\ messages' = messages
             /\ isProcessing' = processing
             /\ isLocating' = locating
        ELSE Answer(l, asking, Unavailable("chatWithAssistant"), processing, locating)

\* handleLocationResponse(granted) up to its first await. The panel with the
\* two buttons is rendered only while locationRequest is set.
handleLocationResponse ==
    /\ locationRequest
    /\ \E granted \in BOOLEAN :
        LET l == Len(locations) + 1
            rec == [pc |-> "position", path |-> "", history |-> History(messages),
                    asked |-> <<>>, response |-> ChatResponse(NoText, NoCall, FALSE)]
        IN  /\ locationRequest' = FALSE
            /\ CASE ~granted ->
                      Ask(l, [rec EXCEPT !.path = "denied"], NoCoords, TRUE, isLocating)
                 [] granted /\ ~geolocation ->
                      Ask(l, [rec EXCEPT !.path = "unsupported"], NoCoords,
                          isProcessing, FALSE)
                 [] OTHER ->
                      /\ locations' = Put(l, rec)
                      /\ isLocating' = TRUE
                      /\ UNCHANGED <<messages, isProcessing>>
    /\ UNCHANGED <<alertMode, userCoords, simMode, sends, hash, events, timers,
                   geolocation, pageVars>>
    /\ UNCHANGED <<storeVars, gatewayVars>>

\* getCurrentPosition calls back: with a position, which is kept and sent to
\* the gateway, or with an error, which the catch block reports to the gateway.
PositionSettled(l) ==
    /\ locations[l].pc = "position"
    /\ \/ \E coords \in Positions :
            /\ userCoords' = coords
            /\ Ask(l, [locations[l] EXCEPT !.path = "resolved"], coords, TRUE,
                   isLocating)
       \/ /\ userCoords' = userCoords
          /\ Ask(l, [locations[l] EXCEPT !.path = "failed"], NoCoords,
                 isProcessing, isLocating)
    /\ UNCHANGED <<alertMode, locationRequest, simMode, sends, hash, events, timers,
                   geolocation, pageVars>>
    /\ UNCHANGED <<storeVars, gatewayVars>>

\* The gateway call of handleLocationResponse returns. Only its text is used.
LocationAnswered(l) ==
    /\ locations[l].pc = "chat"
    /\ \E ext \in ChatOutcomes :
          Answer(l, locations[l], ChatWithAssistant(ext).value, isProcessing,
                 isLocating)
    /\ UNCHANGED <<alertMode, locationRequest, userCoords, simMode, sends, hash,
                   events, timers, geolocation, pageVars>>
    /\ UNCHANGED <<storeVars, gatewayVars>>

\* The quick toggles of the overlay: setSimMode(simMode === mode ? 'NONE' : mode).
SimModes == {"FLOOD", "FIRE", "STORM"}

QuickToggle(mode) ==
    /\ simMode' = IF simMode = mode THEN "NONE" ELSE mode
    /\ UNCHANGED <<messages, isProcessing, alertMode, isLocating, locationRequest,
                   userCoords, sends, hash, events, timers, locations, geolocation,
                   pageVars>>
    /\ UNCHANGED <<storeVars, gatewayVars>>

\* The views the browser can be showing when the assistant mounts.
StartViews == {Chars("/"), Chars("/map"), Chars("/simulation")}

DispatchInit ==
    /\ StoreInit
    /\ apiKey \in BOOLEAN
    /\ gate = Idle
    /\ geolocation = TRUE
    /\ Unmounted
    /\ \E route \in StartViews : AidenMounted(Join(route))

DispatchNext ==
    \/ Send
    \/ \E mode \in SimModes : QuickToggle(mode)
    \/ \E h \in 1..Len(sends) : Respond(h)
    \/ \E h \in 1..Len(sends) : RouteSettled(h)
    \/ \E c \in 1..Len(calls) : DelayElapsed(c)
    \/ \E h \in 1..Len(sends) : ReportFiled(h)
    \/ NavigateTimer

SpecDispatch == DispatchInit /\ [][DispatchNext]_vars

\* api.createReport rejects because its setItem threw. handleSend has no
\* try/catch around the await: its promise rejects and none of the statements
\* after the await runs.
ReportFails(h) ==
    /\ sends[h].pc = "filing"
    /\ \E c \in 1..Len(calls) :
        /\ calls[c].caller = h
        /\ WriteThrows(c)
    /\ sends' = [sends EXCEPT ![h].pc = "rejected"]
    /\ UNCHANGED <<messages, isProcessing, alertMode, isLocating, locationRequest,
                   userCoords, simMode, hash, events, timers, locations, geolocation, pageVars>>
    /\ UNCHANGED gatewayVars

\* What the browser does by itself once the user has spoken: the gateway
\* answers, the delays and the timers run out, the store call settles.
Scheduled ==
    \/ \E h \in 1..Len(sends) : Respond(h)
    \/ \E h \in 1..Len(sends) : RouteSettled(h)
    \/ \E c \in 1..Len(calls) : DelayElapsed(c)
    \/ \E h \in 1..Len(sends) : ReportFiled(h)
    \/ \E h \in 1..Len(sends) : ReportFails(h)
    \/ NavigateTimer

\* The dispatcher in a browser whose localStorage can be full. Every promise
\* the dispatcher awaits settles and every timer fires: the event loop runs
\* the callbacks that are due. Nothing makes the user speak again.
QuotaDispatchNext ==
    \/ DispatchNext
    \/ \E h \in 1..Len(sends) : ReportFails(h)

SpecQuotaDispatch ==
    DispatchInit /\ [][QuotaDispatchNext]_vars /\ WF_vars(Scheduled)

\* The assistant with a user who answers the location requests, in a browser
\* with or without navigator.geolocation, opened on the dashboard.
AssistantInit ==
    /\ StoreInit
    /\ apiKey \in BOOLEAN
    /\ gate = Idle
    /\ geolocation \in BOOLEAN
    /\ Unmounted
    /\ AidenMounted("/")

AssistantNext ==
    \/ DispatchNext
    \/ handleLocationResponse
    \/ \E l \in 1..Len(locations) : PositionSettled(l)
    \/ \E l \in 1..Len(locations) : LocationAnswered(l)

SpecAssistant == AssistantInit /\ [][AssistantNext]_vars

\* One exchange about the location: the turns that lead to the request, and
\* the handler of the two buttons.
LocationNext ==
    \/ Len(sends) < MaxTurns - 1 /\ Send
    \/ \E mode \in SimModes : QuickToggle(mode)
    \/ \E h \in 1..Len(sends) : Respond(h)
    \/ \E h \in 1..Len(sends) : RouteSettled(h)
    \/ \E c \in 1..Len(calls) : DelayElapsed(c)
    \/ \E h \in 1..Len(sends) : ReportFiled(h)
    \/ NavigateTimer
    \/ handleLocationResponse
    \/ \E l \in 1..Len(locations) : PositionSettled(l)
    \/ \E l \in 1..Len(locations) : LocationAnswered(l)

SpecLocation == AssistantInit /\ [][LocationNext]_vars

-----------------------------------------------------------------------------
\* The map view (MapPage)

\* The caller of a store call made by a handler of the map view.
ByMap == 0 - 1

\* stale data is kept: no reload is started
NoReload(m) == m

\* fetchData up to its await: setIsLoading(true), and the three getters start.
\* getResources and getAlerts wait 200 ms, getReports waits 300 ms.
fetchData(m) == [m EXCEPT !.isLoading = TRUE, !.loads = Append(@, "others")]

\* MapPage as it mounts: useState([]), useState(true), and the effect calls
\* fetchData and adds the listener of 'db-reports-updated'.
MapMounted ==
    fetchData([mounted |-> TRUE, reports |-> <<>>, isLoading |-> TRUE,
               loads |-> <<>>])

\* handleUpdate, the listener of 'db-reports-updated'.
handleUpdate(m) == fetchData(m)

\* The 200 ms of a reload are over: getResources and getAlerts run api.init
\* and read their slots. Timers of one delay fire in the order they were set.
OthersRead(r) ==
    /\ mapPage.loads[r] = "others"
    /\ \A q \in 1..(r - 1) : mapPage.loads[q] # "others"
    /\ storage' = ApiInit(storage)
    /\ mapPage' = [mapPage EXCEPT !.loads[r] = "reports"]
    /\ UNCHANGED <<calls, last, started, issued>>
    /\ UNCHANGED <<gatewayVars, aidenVars, simulation, newsFeed>>

\* The 300 ms of a reload are over: getReports reads, Promise.all resolves,
\* and fetchData goes on in the same task: setReports, setIsLoading(false).
ReportsRead(r) ==
    /\ mapPage.loads[r] = "reports"
    /\ r = 1
    /\ storage' = ApiInit(storage)
    /\ mapPage' = [mapPage EXCEPT !.reports = ReadSlot(REPORTS, ApiInit(storage)),
                                  !.isLoading = FALSE,
                                  !.loads = Remove(@, r)]
    /\ UNCHANGED <<calls, last, started, issued>>
    /\ UNCHANGED <<gatewayVars, aidenVars, simulation, newsFeed>>

\* The "Refresh Data" button, disabled while isLoading: onClick={fetchData}.
RefreshData ==
    /\ ~mapPage.isLoading
    /\ mapPage' = fetchData(mapPage)
    /\ UNCHANGED <<storeVars, gatewayVars, aidenVars, simulation, newsFeed>>

\* handleSubmitReport and handleVerifyReport up to their await.
MapCall(op, arg) ==
    /\ started < MaxCalls
    /\ calls' = Append(calls, CallBy(op, arg, "delay", ByMap))
    /\ started' = started + 1
    /\ UNCHANGED <<storage, last, issued>>
    /\ UNCHANGED notStore

handleSubmitReport(report) == MapCall("createReport", report)
handleVerifyReport(id) == MapCall("verifyReport", id)

\* The createReport of handleSubmitReport settles: the event reaches
\* handleUpdate, and the handler calls fetchData() itself.
ReportSubmitted(c) ==
    /\ calls[c].caller = ByMap
    /\ PushReport(c)
    /\ mapPage' = fetchData(handleUpdate(mapPage))
    /\ UNCHANGED <<gatewayVars, aidenVars, simulation, newsFeed>>

\* The verifyReport of handleVerifyReport settles: the event reaches
\* handleUpdate, and the handler marks the report in the list it shows.
ReportVerified(c) ==
    /\ calls[c].caller = ByMap
    /\ SetVerified(c)
    /\ LET m == handleUpdate(mapPage)
       IN  mapPage' = [m EXCEPT !.reports = MarkVerified(@, calls[c].arg)]
    /\ UNCHANGED <<gatewayVars, aidenVars, simulation, newsFeed>>

\* A createReport made for the assistant settles while the map is shown.
ReportCreated(c) ==
    /\ calls[c].caller = 0
    /\ PushReport(c)
    /\ mapPage' = handleUpdate(mapPage)
    /\ UNCHANGED <<gatewayVars, aidenVars, simulation, newsFeed>>

MapInit ==
    /\ StoreInit
    /\ apiKey = TRUE
    /\ geolocation = TRUE
    /\ gate = [fn |-> "none", pc |-> "idle"]
    /\ AidenMounted("/map")
    /\ mapPage = MapMounted
    /\ simulation = NotMounted
    /\ newsFeed = NotMounted

\* The steps the timers and the settled promises take by themselves.
MapScheduled ==
    \/ \E c \in 1..Len(calls) : DelayElapsed(c)
    \/ \E c \in 1..Len(calls) : ReportSubmitted(c)
    \/ \E c \in 1..Len(calls) : ReportVerified(c)
    \/ \E c \in 1..Len(calls) : ReportCreated(c)
    \/ \E r \in 1..Len(mapPage.loads) : OthersRead(r)
    \/ \E r \in 1..Len(mapPage.loads) : ReportsRead(r)

MapNext ==
    \/ \E report \in {r \in ReportInputs : r.type = "FIRE"} : handleSubmitReport(report)
    \/ \E id \in {"r2"} \cup issued : handleVerifyReport(id)
    \/ \E report \in {r \in ReportInputs : r.type = "FLOOD"} :
            StartCall("createReport", report, "delay")
    \/ RefreshData
    \/ MapScheduled

\* Timers fire and settled promises continue: a step that is due is taken.
SpecMap == MapInit /\ [][MapNext]_vars /\ WF_vars(MapScheduled)

-----------------------------------------------------------------------------
\* The simulation view (Simulation). Intensities are counted in tenths: the
\* slider moves in steps of 0.1 and the timer adds 0.5.

Tenths(n) == 10 * n

\* event.detail.intensity: a number, or undefined.
Given(v) == [given |-> TRUE, value |-> v]
NotGiven == [given |-> FALSE, value |-> 0]

\* The details an 'aiden-sim' event can carry: the listed commands, one that
\* is not listed and none, with no intensity or with a number, which the tool
\* declaration describes as 0-100 and nothing enforces.
SimDetails ==
    { [command |-> c, intensity |-> v] :
        c \in {"START", "STOP", "RESET", "SET_INTENSITY", "PAUSE", Undef},
        v \in {NotGiven} \cup
              { Given(n) : n \in {0, Tenths(50), Tenths(100), Tenths(150),
                                  0 - Tenths(5)} } }

\* Positions of <input type="range" min="0" max="100" step="0.1">: the two
\* ends, the first step, and two that the timer's 0.5 does not divide.
SliderValues == {0, 1, Tenths(50) + 3, Tenths(100) - 2, Tenths(100)}

\* How many 'aiden-sim' events the view receives.
MaxCommands == 2

NoDetail == [command |-> Undef, intensity |-> NotGiven]

\* the intensity is reset by every command
ResetsAlways(sim, detail) == [sim EXCEPT !.intensity = 0]

\* handleAIControl: the four tests, one after the other.
AIControl(sim, detail) ==
    LET playing == IF detail.command = "START" THEN TRUE
                   ELSE IF detail.command = "STOP" THEN FALSE
                   ELSE sim.isPlaying
        level == IF detail.command = "SET_INTENSITY" /\ detail.intensity.given
                 THEN detail.intensity.value
                 ELSE IF detail.command = "RESET" THEN 0
                 ELSE sim.intensity
    IN  [sim EXCEPT !.isPlaying = playing, !.intensity = level]

\* Simulation as it mounts: useState(0), useState(false).
\* received counts the 'aiden-sim' events handled, detail is the last one.
SimMounted ==
    [mounted |-> TRUE, intensity |-> 0, isPlaying |-> FALSE, received |-> 0,
     detail |-> NoDetail]

\* A step of the simulation view: the other components are left alone.
SimStep(sim) ==
    /\ simulation' = sim
    /\ UNCHANGED <<storeVars, gatewayVars, aidenVars, mapPage, newsFeed>>

\* The listener of 'aiden-sim'.
handleAIControl(detail) ==
    /\ simulation.received < MaxCommands
    /\ SimStep([AIControl(simulation, detail) EXCEPT !.received = @ + 1,
                                                     !.detail = detail])

\* The callback of setInterval(..., 50), which runs while isPlaying.
Tick ==
    /\ simulation.isPlaying
    /\ SimStep([simulation EXCEPT
                  !.intensity = IF @ >= Tenths(100) THEN 0 ELSE @ + 5])

\* onChange of the slider: setIntensity(Number(e.target.value)).
SliderChange(v) == SimStep([simulation EXCEPT !.intensity = v])

\* The rewind and fast-forward buttons.
Rewind == SimStep([simulation EXCEPT !.intensity = 0])
FastForward == SimStep([simulation EXCEPT !.intensity = Tenths(100)])

\* The play button: setIsPlaying(!isPlaying).
TogglePlay == SimStep([simulation EXCEPT !.isPlaying = ~@])

SimInit ==
    /\ StoreInit
    /\ apiKey = TRUE
    /\ geolocation = TRUE
    /\ gate = [fn |-> "none", pc |-> "idle"]
    /\ AidenMounted("/simulation")
    /\ mapPage = NotMounted
    /\ simulation = SimMounted
    /\ newsFeed = NotMounted

SimNext ==
    \/ \E detail \in SimDetails : handleAIControl(detail)
    \/ Tick
    \/ \E v \in SliderValues : SliderChange(v)
    \/ Rewind
    \/ FastForward
    \/ TogglePlay

SpecSim == SimInit /\ [][SimNext]_vars

-----------------------------------------------------------------------------
\* The news feed (NewsFeed)

\* How many times the refresh button is pressed.
MaxFetches == 2

\* the live list is shown whatever it holds
AlwaysLive(liveNews) == TRUE

\* if (liveNews.length > 0)
HasLive(liveNews) == Len(liveNews) > 0

\* fetchNews up to its first timer or network wait: setIsLoading(true) and
\* fetchRealTimeNews, which without a client returns [] at once, so that
\* fetchNews goes on to api.getNews and its delay.
Fetching(feed) ==
    [feed EXCEPT !.isLoading = TRUE,
                 !.liveNews = <<>>,
                 !.pc = IF initializeGemini(apiKey) THEN "live" ELSE "mock",
                 !.fetches = @ + 1]

\* NewsFeed as it mounts: useState([]), useState(true), useState(false), and
\* the effect calls fetchNews.
FeedMounted ==
    Fetching([mounted |-> TRUE, news |-> <<>>, isLoading |-> TRUE,
              isLive |-> FALSE, liveNews |-> <<>>, pc |-> "idle", fetches |-> 0])

\* A step of the news feed that leaves the store alone.
FeedStep(feed) ==
    /\ newsFeed' = feed
    /\ UNCHANGED <<storeVars, gatewayVars, aidenVars, mapPage, simulation>>

\* The refresh button, which is disabled while isLoading.
fetchNews ==
    /\ ~newsFeed.isLoading
    /\ newsFeed.fetches <= MaxFetches
    /\ FeedStep(Fetching(newsFeed))

\* fetchRealTimeNews returns: a list that is not empty is shown as live, an
\* empty one sends fetchNews to api.getNews.
LiveFetched ==
    /\ newsFeed.pc = "live"
    /\ \E ext \in Outcomes("fetchRealTimeNews") :
        LET liveNews == FetchRealTimeNews(ext, Clock).value
        IN  FeedStep(IF HasLive(liveNews)
                     THEN [newsFeed EXCEPT !.liveNews = liveNews,
                                           !.news = liveNews,
                                           !.isLive = TRUE,
                                           !.isLoading = FALSE,
                                           !.pc = "idle"]
                     ELSE [newsFeed EXCEPT !.liveNews = liveNews, !.pc = "mock"])

\* api.getNews returns after its 250 ms: init, getItem, parse; then
\* setNews(mockNews), setIsLive(false) and, in finally, setIsLoading(false).
MockFetched ==
    /\ newsFeed.pc = "mock"
    /\ storage' = ApiInit(storage)
    /\ newsFeed' = [newsFeed EXCEPT !.news = ReadSlot(NEWS, ApiInit(storage)),
                                    !.isLive = FALSE,
                                    !.isLoading = FALSE,
                                    !.pc = "idle"]
    /\ UNCHANGED <<calls, last, started, issued>>
    /\ UNCHANGED <<gatewayVars, aidenVars, mapPage, simulation>>

FeedInit ==
    /\ StoreInit
    /\ apiKey \in BOOLEAN
    /\ geolocation = TRUE
    /\ gate = Idle
    /\ AidenMounted("/")
    /\ mapPage = NotMounted
    /\ simulation = NotMounted
    /\ newsFeed = FeedMounted

FeedNext ==
    \/ fetchNews
    \/ LiveFetched
    \/ MockFetched

SpecFeed == FeedInit /\ [][FeedNext]_vars

-----------------------------------------------------------------------------
\* Properties of the local store

Getters == {"getReports", "getResources", "getAlerts", "getNews", "getContacts"}

ReadKey(op) ==
    CASE op = "getReports" -> REPORTS
      [] op = "getResources" -> RESOURCES
      [] op = "getAlerts" -> ALERTS
      [] op = "getNews" -> NEWS
      [] op = "getContacts" -> CONTACTS

Ids(items) == { items[i].id : i \in 1..Len(items) }

DistinctIds(items) ==
    \A i, j \in 1..Len(items) : items[i].id = items[j].id => i = j

\* C1: seeding is idempotent. A read that finds its slot empty returns exactly
\* the fixtures; a read that finds a slot present leaves every present slot as
\* it was and returns what is stored, with no identifier twice; after any read
\* all five slots are present.
C1_SeedingIdempotent ==
    [][\A c \in 1..Len(calls) :
          (calls[c].op \in Getters
             /\ Getter(c, calls[c].op, ReadKey(calls[c].op))) =>
              LET key == ReadKey(calls[c].op) IN
              /\ \A k \in KEYS : storage'[k].present
              /\ \A k \in KEYS : storage[k].present => storage'[k] = storage[k]
              /\ ~storage[key].present => last'.result = Fixture(key)
              /\ storage[key].present =>
                    last'.result = Parse(key, storage[key].items)
              /\ DistinctIds(last'.result)
              /\ \A k \in KEYS :
                    ~storage[k].present => Parse(k, storage'[k].items) = Fixture(k)
      ]_vars

\* A read settled after the slots were seeded, seeded nothing itself and
\* returned the fixtures of its collection.
C1_Witness ==
    /\ last.op \in Getters
    /\ started - Len(calls) >= 2
    /\ last.effects = <<>>
    /\ last.result = Fixture(ReadKey(last.op))

\* C2 (as claimed): when a createReport settles, a getReports that follows
\* returns what a getReports returned before it plus one record appended last,
\* whose id is new and whose verified flag is false, and the call dispatched
\* 'db-reports-updated' exactly once, after its setItem of the reports.
C2_CreateAppendsOne ==
    [][\A c \in 1..Len(calls) :
          createReport(c) =>
              LET before == ReadSlot(REPORTS, ApiInit(storage))
                  after == ReadSlot(REPORTS, storage')
                  fx == last'.effects
                  ev == DispatchEvent("db-reports-updated")
              IN  /\ Len(after) = Len(before) + 1
                  /\ SubSeq(after, 1, Len(before)) = before
                  /\ after[Len(after)].id \notin Ids(before)
                  /\ after[Len(after)].verified = FALSE
                  /\ Cardinality({i \in 1..Len(fx) : fx[i] = ev}) = 1
                  /\ \E i, j \in 1..Len(fx) :
                        i < j /\ fx[i] = SetItem(REPORTS) /\ fx[j] = ev
      ]_vars

\* C3 (as claimed): when a verifyReport settles, the report it names has
\* verified = true and is otherwise as it was, every other report is as it was,
\* in the same order; and with an id that no report has, the stored collection
\* is the one that was stored (the seeded one on first use).
C3_VerifyFrame ==
    [][\A c \in 1..Len(calls) :
          verifyReport(c) =>
              LET before == ReadSlot(REPORTS, ApiInit(storage))
                  after == ReadSlot(REPORTS, storage')
                  id == calls[c].arg
              IN  /\ Len(after) = Len(before)
                  /\ \A i \in 1..Len(before) :
                        after[i] = IF before[i].id = id
                                   THEN [before[i] EXCEPT !.verified = TRUE]
                                   ELSE before[i]
                  /\ id \notin Ids(before) =>
                        storage'[REPORTS] = ApiInit(storage)[REPORTS]
      ]_vars

\* C4: verification is monotonic and no report is removed. Every stored report
\* is still stored after any step, and verified if it was verified.
C4_VerificationMonotonic ==
    [][\A i \in 1..Len(storage[REPORTS].items) :
          \E j \in 1..Len(storage'[REPORTS].items) :
              /\ storage'[REPORTS].items[j].id = storage[REPORTS].items[i].id
              /\ storage[REPORTS].items[i].verified =>
                    storage'[REPORTS].items[j].verified
      ]_vars

\* The fixture report r2 has been verified, a createReport has settled after
\* that and another call is still in flight.
C4_Witness ==
    /\ last.op = "createReport"
    /\ Len(calls) > 0
    /\ Len(storage[REPORTS].items) = 3
    /\ storage[REPORTS].items[1].verified
    /\ storage[REPORTS].items[2].id = "r2"
    /\ storage[REPORTS].items[2].verified

\* C5: deleteContact removes exactly the one record with the id when one is
\* stored, and none otherwise; the contacts that remain keep their order.
C5_DeleteContact ==
    [][\A c \in 1..Len(calls) :
          deleteContact(c) =>
              LET before == ApiInit(storage)[CONTACTS].items
                  after == storage'[CONTACTS].items
                  id == calls[c].arg
              IN  IF id \in Ids(before)
                  THEN \E p \in 1..Len(before) :
                          before[p].id = id /\ after = Remove(before, p)
                  ELSE after = before
      ]_vars

\* The contact between a fixture and an added one has been deleted.
C5_Witness ==
    /\ last.op = "deleteContact"
    /\ last.arg = "c2"
    /\ Len(storage[CONTACTS].items) = 2
    /\ storage[CONTACTS].items[1].id = "c1"
    /\ storage[CONTACTS].items[2].id \in issued

\* C6: in every reachable state no two stored reports share an id and no two
\* stored contacts share an id.
C6_UniqueIds ==
    /\ DistinctIds(storage[REPORTS].items)
    /\ DistinctIds(storage[CONTACTS].items)

\* Two reports and a contact have been created.
C6_Witness ==
    /\ Len(storage[REPORTS].items) = 4
    /\ \E i \in 1..Len(storage[CONTACTS].items) :
          storage[CONTACTS].items[i].id \in issued

-----------------------------------------------------------------------------
\* Properties of the AI gateway

\* A fetched item: a chunk the filter keeps.
IsItem(chunk) == chunk.web /\ chunk.uri.given /\ chunk.title # Undef

\* Where the first fetched item of a url stands in the fetched chunks.
FirstFetched(chunks, url) ==
    CHOOSE k \in 1..Len(chunks) :
        /\ IsItem(chunks[k]) /\ chunks[k].uri = url
        /\ \A h \in 1..(k - 1) : ~(IsItem(chunks[h]) /\ chunks[h].uri = url)

NewsDone == gate.fn = "fetchRealTimeNews" /\ gate.pc = "done" /\ gate.sent = 1

\* C7: fetchRealTimeNews deduplicates by link. Whatever chunks were fetched,
\* the returned list has at most one item per url, each returned item is the
\* first fetched item of its url, the returned items stand in the order in
\* which they were fetched, and there are at most ten of them.
C7_NewsDeduplicated ==
    NewsDone =>
        LET chunks == gate.ext.chunks
            res == gate.result
        IN  /\ \A i, j \in 1..Len(res) : res[i].url = res[j].url => i = j
            /\ \A i \in 1..Len(res) :
                  /\ \E k \in 1..Len(chunks) :
                        IsItem(chunks[k]) /\ chunks[k].uri = res[i].url
                  /\ res[i].title = chunks[FirstFetched(chunks, res[i].url)].title
            /\ \A i, j \in 1..Len(res) :
                  i < j => FirstFetched(chunks, res[i].url)
                              < FirstFetched(chunks, res[j].url)
            /\ Len(res) <= 10

\* More than ten urls were fetched, one of them twice, and ten items returned.
C7_Witness ==
    /\ NewsDone
    /\ Len(gate.result) = 10
    /\ Len(gate.ext.chunks) > 11
    /\ \E i, j \in 1..Len(gate.ext.chunks) :
          /\ i < j
          /\ gate.ext.chunks[i].uri = gate.ext.chunks[j].uri
          /\ gate.ext.chunks[i].title # gate.ext.chunks[j].title
          /\ \E r \in 1..Len(gate.result) : gate.result[r].url = gate.ext.chunks[i].uri

\* C8: without an API key every capability returns its fixed fallback (null,
\* "AI Service Unavailable", {text: "System offline."}, the empty list), does
\* not throw and sends no request.
C8_NoKeyFallback ==
    (~apiKey /\ gate.pc = "done") =>
        /\ ~gate.threw
        /\ gate.sent = 0
        /\ gate.fn = "analyzeDisasterImage" => gate.result = JsNull
        /\ gate.fn = "generateEmergencyPlanText" =>
              gate.result = "AI Service Unavailable"
        /\ gate.fn = "chatWithAssistant" =>
              /\ gate.result.text = "System offline."
              /\ gate.result.functionCall = NoCall
        /\ gate.fn = "fetchRealTimeNews" => gate.result = <<>>

\* The chat capability has returned without a key.
C8_Witness ==
    /\ ~apiKey
    /\ gate.pc = "done"
    /\ gate.fn = "chatWithAssistant"
    /\ gate.result.text = "System offline."

\* The awaited call threw, or resolved with something the capability cannot
\* read: no response object, a text that is not JSON where JSON is parsed, a
\* uri that is no URL.
CallFailed ==
    \/ gate.ext.kind \in {"throw", "undefined"}
    \/ /\ gate.fn = "analyzeDisasterImage"
       /\ gate.ext.text # NoText
       /\ ~JsonParses(gate.ext.text)
    \/ /\ gate.fn = "fetchRealTimeNews"
       /\ \E k \in 1..Len(gate.ext.chunks) :
             IsItem(gate.ext.chunks[k]) /\ ~gate.ext.chunks[k].uri.valid

\* C9: no capability propagates a failure. Every call that was sent returns
\* normally, and when the awaited call threw or its response could not be read
\* the result is the neutral one: null, an error string, a response with only
\* an error string and no tool call, the empty list.
C9_NoFailurePropagates ==
    (gate.pc = "done" /\ gate.sent = 1) =>
        /\ ~gate.threw
        /\ CallFailed =>
              /\ gate.fn = "analyzeDisasterImage" => gate.result = JsNull
              /\ gate.fn = "generateEmergencyPlanText" =>
                    gate.result = "Error generating plan."
              /\ gate.fn = "chatWithAssistant" =>
                    /\ gate.result.text = "Communication error."
                    /\ gate.result.functionCall = NoCall
              /\ gate.fn = "fetchRealTimeNews" => gate.result = <<>>

\* The image analysis got a text that is not JSON and returned null.
C9_Witness ==
    /\ gate.pc = "done"
    /\ gate.sent = 1
    /\ gate.fn = "analyzeDisasterImage"
    /\ gate.ext.kind = "response"
    /\ gate.ext.text = Prose
    /\ gate.logged
    /\ gate.result = JsNull

-----------------------------------------------------------------------------
\* Properties of the command dispatcher

\* The name each listed route goes by in an acknowledgement.
NameOf(route) ==
    CASE route = Chars("/") -> "Dashboard"
      [] route = Chars("/map") -> "map"
      [] route = Chars("/prediction") -> "prediction"
      [] route = Chars("/simulation") -> "simulation"
      [] route = Chars("/emergency-plan") -> "emergency-plan"
      [] route = Chars("/ar-view") -> "ar-view"
      [] route = Chars("/settings") -> "settings"
      [] route = Chars("/contacts") -> "contacts"

\* given is the route listed with nothing but blanks before and after it.
Surrounds(given, listed) ==
    \E i \in 0..(Len(given) - Len(listed)) :
        /\ SubSeq(given, i + 1, i + Len(listed)) = listed
        /\ \A j \in 1..Len(given) :
              (j <= i \/ j > i + Len(listed)) => given[j] = " "

\* Turn h takes, in this step, the answer to its gateway call, and the answer
\* is a controlApp call with action NAVIGATE and no narration.
NavigateAnswered(h) ==
    /\ sends[h].pc = "chat"
    /\ sends'[h].pc # "chat"
    /\ sends'[h].response.text = NoText
    /\ sends'[h].response.functionCall.name = "controlApp"
    /\ sends'[h].response.functionCall.args.action = "NAVIGATE"

\* The dispatcher goes to the route and appends the one acknowledgement that
\* names it; or it does neither.
Routed(route) ==
    /\ hash' = "#" \o Join(route)
    /\ events' = Append(events, [kind |-> "navigate", name |-> Join(route),
                                 detail |-> <<>>])
    /\ messages' =
          Append(messages, Message("Routing to " \o NameOf(route) \o ".", "ai"))

NotRouted == hash' = hash /\ events' = events /\ messages' = messages

\* C10: a controlApp call with action NAVIGATE and no narration, whose route
\* with the blanks around it removed is one of the eight listed routes, makes
\* the dispatcher navigate to that route and append exactly one acknowledgement
\* naming it; with any other route, or none, it navigates nowhere and appends
\* nothing.
C10_NavigateAllowList ==
    [][\A h \in 1..Len(sends) :
          NavigateAnswered(h) =>
              LET route == sends'[h].response.functionCall.args.route
              IN  /\ \A listed \in validRoutes :
                        Surrounds(route, listed) => Routed(listed)
                  /\ (\A listed \in validRoutes : ~Surrounds(route, listed))
                        => NotRouted
      ]_vars

\* One turn was answered with NAVIGATE to the settings route with blanks
\* around it and no narration, and the
\* acknowledgement and the navigation are the last things that happened;
\* another was answered with NAVIGATE to a route that is not listed.
C10_Witness ==
    /\ \E h \in 1..Len(sends) :
          /\ sends[h].pc = "done"
          /\ sends[h].response = ChatResponse(NoText, Navigate(Chars(" /settings ")), FALSE)
    /\ \E h \in 1..Len(sends) :
          /\ sends[h].pc = "done"
          /\ sends[h].response = ChatResponse(NoText, Navigate(Chars("/nonexistent")), FALSE)
    /\ hash = "#/settings"
    /\ Len(events) = 1
    /\ messages[Len(messages)] = Message("Routing to settings.", "ai")
    /\ Len(SelectSeq(messages, LAMBDA m : m.sender = "ai")) = 2

\* C10 (as claimed): the route is taken as the tool call gives it: listed, the
\* dispatcher navigates to it and appends one acknowledgement naming it; not
\* listed, it navigates nowhere and appends nothing.
C10_AsClaimed ==
    [][\A h \in 1..Len(sends) :
          NavigateAnswered(h) =>
              LET route == sends'[h].response.functionCall.args.route
              IN  /\ route \in validRoutes => Routed(route)
                  /\ route \notin validRoutes => NotRouted
      ]_vars

\* Turn h takes, in this step, the answer to its gateway call, and the answer
\* is a controlApp call with action SIMULATION_CONTROL and command START.
StartAnswered(h) ==
    /\ sends[h].pc = "chat"
    /\ sends'[h].pc # "chat"
    /\ sends'[h].response.functionCall.name = "controlApp"
    /\ sends'[h].response.functionCall.args.action = "SIMULATION_CONTROL"
    /\ sends'[h].response.functionCall.args.simulationCommand = "START"

\* Turn h is one that navigated to the simulation view and its settle delay
\* ends in this step.
StartSettled(h) ==
    /\ sends[h].pc = "settle"
    /\ sends'[h].pc # "settle"
    /\ sends[h].response.functionCall.args.action = "SIMULATION_CONTROL"

ToSimulation == [kind |-> "navigate", name |-> "/simulation", detail |-> <<>>]

IsSimEvent(e) == e.kind = "event" /\ e.name = "aiden-sim"

\* C11: a SIMULATION_CONTROL call with command START answered while the view
\* is not the simulation view makes the dispatcher navigate to /simulation and
\* broadcast nothing in that step: the 'aiden-sim' event is recorded only in the
\* later step that ends the settle delay, after the navigation in the recorded
\* order. Answered while the simulation view is showing, it records the
\* broadcast at once and no navigation.
C11_StartNavigatesFirst ==
    [][\A h \in 1..Len(sends) :
          /\ (StartAnswered(h) /\ hash # "#/simulation") =>
                /\ events' = Append(events, ToSimulation)
                /\ hash' = "#/simulation"
                /\ sends'[h].pc = "settle"
          /\ StartSettled(h) =>
                /\ Len(events') = Len(events) + 1
                /\ SubSeq(events', 1, Len(events)) = events
                /\ IsSimEvent(events'[Len(events')])
                /\ events'[Len(events')].detail[1] = "START"
                /\ \E i \in 1..Len(events) : events[i] = ToSimulation
                /\ hash' = hash
          /\ (StartAnswered(h) /\ hash = "#/simulation") =>
                /\ Len(events') = Len(events) + 1
                /\ SubSeq(events', 1, Len(events)) = events
                /\ IsSimEvent(events'[Len(events')])
                /\ hash' = hash
                /\ sends'[h].pc = "done"
      ]_vars

\* Two turns were answered with START: the first found another view, navigated
\* and broadcast after the settle delay; the second found the simulation view
\* and only broadcast.
C11_Witness ==
    /\ Len(sends) = 2
    /\ \A h \in 1..2 :
          /\ sends[h].pc = "done"
          /\ sends[h].response.functionCall.args.simulationCommand = "START"
    /\ Len(events) = 3
    /\ events[1] = ToSimulation
    /\ IsSimEvent(events[2])
    /\ IsSimEvent(events[3])

\* The assistant messages this step appends to the conversation.
Appended ==
    SelectSeq(SubSeq(messages', Len(messages) + 1, Len(messages')),
              LAMBDA m : m.sender = "ai")

\* C12 (as claimed): a turn of handleSend appends at most one assistant
\* message, whatever tool call its answer carries: the step that handles an
\* answer with narration appends the narration and nothing else, no step
\* appends two, and a later step of a turn whose answer carried narration
\* appends none.
C12_OneMessagePerTurn ==
    [][/\ Len(Appended) <= 1
       /\ \A h \in 1..Len(sends) :
            /\ (sends[h].pc = "chat" /\ sends'[h].pc # "chat"
                  /\ sends'[h].response.text # NoText) =>
                    Appended = <<Message(sends'[h].response.text, "ai")>>
            /\ (sends[h].pc \in {"settle", "filing"} /\ sends'[h].pc = "done"
                  /\ sends[h].response.text # NoText) =>
                    Appended = <<>>
      ]_vars

\* The values the tool declaration lists for the two sub-commands.
SimulationCommands == {"START", "STOP", "RESET", "SET_INTENSITY"}

MapCommands == {"ZOOM_IN", "ZOOM_OUT", "RECENTER"}

\* A controlApp call whose route or sub-command is none of the listed values.
Unrecognized(call) ==
    /\ call.name = "controlApp"
    /\ \/ call.args.action = "NAVIGATE" /\ call.args.route \notin validRoutes
       \/ /\ call.args.action = "SIMULATION_CONTROL"
          /\ call.args.simulationCommand \notin SimulationCommands
       \/ /\ call.args.action = "MAP_CONTROL"
          /\ call.args.mapCommand \notin MapCommands

\* C13 (as claimed): a turn answered with a NAVIGATE call whose route is not
\* listed, a SIMULATION_CONTROL call whose command is not listed (or absent) or
\* a MAP_CONTROL call whose command is not listed (or absent) navigates nowhere
\* and broadcasts nothing, neither in the step that takes the answer nor in
\* the step that ends its settle delay.
C13_UnrecognizedIgnored ==
    [][\A h \in 1..Len(sends) :
          (/\ sends[h].pc \in {"chat", "settle"}
           /\ sends'[h].pc # sends[h].pc
           /\ Unrecognized(sends'[h].response.functionCall)) =>
                hash' = hash /\ events' = events
      ]_vars

\* C14 (as claimed): while locationRequest is set, no step starts a turn of
\* handleSend with its gateway call, and no step navigates, broadcasts or
\* writes the store.
C14_PendingSuspendsDispatch ==
    [][locationRequest =>
          /\ Len(sends') = Len(sends)
          /\ hash' = hash
          /\ events' = events
          /\ storage' = storage
      ]_vars

\* Invocation l of handleLocationResponse takes, in this step, the answer to
\* its gateway call.
Returns(l) ==
    /\ locations'[l].pc = "done"
    /\ l > Len(locations) \/ locations[l].pc # "done"

\* The invocation made one gateway call, with the position on the path that
\* resolved one and with the notice of its path on the others.
OneCall(rec) ==
    /\ Len(rec.asked) = 1
    /\ rec.path \in {"denied", "unsupported", "resolved", "failed"}
    /\ IF rec.path = "resolved"
       THEN rec.asked[1].userLocation \in Positions
       ELSE /\ rec.asked[1].userLocation = NoCoords
            /\ rec.asked[1].message = Notice(rec.path, NoCoords)

\* C15 (as claimed): when the gateway call of an answered location request
\* returns, on each of the four paths, that invocation has issued exactly one
\* gateway call, carrying the position or the notice of its path, and the
\* dispatcher is idle: locationRequest, isLocating and isProcessing are false.
C15_AnsweredReturnsToIdle ==
    [][\A l \in 1..Len(locations') :
          Returns(l) =>
            /\ OneCall(locations'[l])
            /\ ~locationRequest'
            /\ ~isLocating'
            /\ ~isProcessing'
      ]_vars

\* A mutation settles in this step.
MutationSettles == Len(calls') < Len(calls) /\ last'.op \in Mutations

Has(effects, x) == \E i \in 1..Len(effects) : effects[i] = x

\* C16: a mutation in which a setItem throws leaves the collection it writes
\* as it was stored before the call (absent still or as api.init seeds it, if
\* nothing was stored) and dispatches no 'db-reports-updated' event, whether
\* the setItem that throws is its own or one of api.init; a mutation that does
\* not throw has written the collection, and a report mutation has dispatched
\* the event after the write.
C16_WriteAllOrNothing ==
    [][MutationSettles =>
          LET key == WrittenKey(last'.op)
              done == last'.effects
          IN  IF last'.result = QuotaExceeded
              THEN /\ storage[key].present => storage'[key] = storage[key]
                   /\ ~storage[key].present =>
                          \/ storage'[key] = storage[key]
                          \/ storage'[key] = Slot(Stringify(key, Fixture(key)))
                   /\ ~Has(done, DispatchEvent("db-reports-updated"))
                   /\ storage[key].present => ~Has(done, SetItem(key))
              ELSE /\ storage'[key].present
                   /\ Len(done) > 0
                   /\ IF key = REPORTS
                      THEN /\ Len(done) > 1
                           /\ done[Len(done) - 1] = SetItem(key)
                           /\ done[Len(done)] = DispatchEvent("db-reports-updated")
                      ELSE done[Len(done)] = SetItem(key)
      ]_vars

\* A verifyReport has thrown at its write with the reports already stored.
C16_Witness ==
    /\ last.op = "verifyReport"
    /\ last.result = QuotaExceeded
    /\ last.effects = <<>>
    /\ storage[REPORTS].present

\* C17 (as claimed): whenever an invocation of handleSend has set isProcessing,
\* isProcessing becomes false again, also when the createReport it awaits
\* fails at its write.
C17_ProcessingEnds == isProcessing ~> ~isProcessing

\* C18 (as claimed): the answer to the gateway call of a turn that a later
\* invocation of handleSend has superseded while it was in flight is dropped:
\* the step that takes it appends no message, navigates nowhere, broadcasts
\* nothing and starts no store write.
C18_SupersededDiscarded ==
    [][\A h \in 1..Len(sends) :
          (sends[h].pc = "chat" /\ sends'[h].pc # "chat" /\ Len(sends) > h) =>
              /\ messages' = messages
              /\ hash' = hash
              /\ events' = events
              /\ calls' = calls
              /\ storage' = storage
      ]_vars

\* C19: with two tabs on one storage, the collection persisted by a write is
\* exactly the writer's own change applied to what that writer had read: a
\* record another writer stored after that read is absent from it.
C19_LastWriterWins ==
    [][\A c \in 1..Len(calls) :
          (calls[c].pc = "write" /\ calls' = Remove(calls, c)) =>
              LET key == WrittenKey(calls[c].op)
                  before == calls[c].read
              IN  /\ \E id \in UUIDs :
                        storage'[key] =
                            Slot(Stringify(key, Changed(calls[c].op, calls[c].arg,
                                                        before, id, Clock)))
                  /\ \A x \in Ids(storage[key].items) \ Ids(before) :
                        x \notin Ids(storage'[key].items)
      ]_vars

\* Two createReport calls have both written and the collection holds the
\* report of one of them only.
C19_Witness ==
    /\ calls = <<>>
    /\ started = 2
    /\ Cardinality(issued) = 2
    /\ last.op = "createReport"
    /\ \A id \in issued : id \notin Ids(storage[CONTACTS].items)
    /\ Cardinality(issued \cap Ids(storage[REPORTS].items)) = 1

\* Turn h takes, in this step, an answer that carries a reportIncident call.
ReportAnswered(h) ==
    /\ sends[h].pc = "chat"
    /\ sends'[h].pc # "chat"
    /\ sends'[h].response.functionCall.name = "reportIncident"

\* The createReport call of turn h settles in this step and the turn ends.
ReportAcknowledged(h) == sends[h].pc = "filing" /\ sends'[h].pc = "done"

ToMap == [kind |-> "navigate", name |-> "/map", detail |-> <<>>]

\* C20 (as claimed): a reportIncident call hands the store one report with the
\* supplied type and description and with userCoords if a position has been
\* resolved, else (34.0522, -118.2437); when the store call settles exactly
\* one new unverified report with those fields is persisted and, the write
\* done, one acknowledgement is appended and the navigation to /map is set for
\* later; the navigation happens only in a later step, when the timer fires.
C20_ReportPersistedThenShown ==
    [][\A h \in 1..Len(sends) :
          /\ ReportAnswered(h) =>
                LET args == sends'[h].response.functionCall.args
                    made == calls'[Len(calls')]
                IN  /\ Len(calls') = Len(calls) + 1
                    /\ made.op = "createReport"
                    /\ made.arg.type = args.type
                    /\ made.arg.description = args.description
                    /\ made.arg.coordinates =
                          IF userCoords # NoCoords THEN userCoords ELSE DefaultCoords
                    /\ storage' = storage
                    /\ hash' = hash
                    /\ events' = events
          /\ ReportAcknowledged(h) =>
                LET args == sends[h].response.functionCall.args
                    before == ApiInit(storage)[REPORTS].items
                    after == storage'[REPORTS].items
                    new == after[Len(after)]
                IN  /\ Len(after) = Len(before) + 1
                    /\ Ids(SubSeq(after, 1, Len(before))) = Ids(before)
                    /\ new.id \notin Ids(before)
                    /\ new.verified = FALSE
                    /\ new.type = args.type
                    /\ new.description = ToJSON(args.description)
                    /\ new.coordinates \in {userCoords, DefaultCoords}
                    /\ Len(messages') = Len(messages) + 1
                    /\ messages'[Len(messages')].sender = "ai"
                    /\ timers' = timers + 1
                    /\ hash' = hash
                    /\ events' = events
      ]_vars

\* Turn h takes, in this step, an answer that carries a MAP_CONTROL or an
\* OPEN_REPORT call.
MapAnswered(h) ==
    /\ sends[h].pc = "chat"
    /\ sends'[h].pc # "chat"
    /\ sends'[h].response.functionCall.name = "controlApp"
    /\ sends'[h].response.functionCall.args.action \in {"MAP_CONTROL", "OPEN_REPORT"}

\* The settle delay of such a turn ends in this step.
MapSettled(h) ==
    /\ sends[h].pc = "settle"
    /\ sends'[h].pc # "settle"
    /\ sends[h].response.functionCall.args.action \in {"MAP_CONTROL", "OPEN_REPORT"}

\* The step records exactly one more event: the broadcast of the call, 'aiden-map'
\* with the map command or 'aiden-report-ui', and the view stays.
MapBroadcast(args) ==
    /\ Len(events') = Len(events) + 1
    /\ SubSeq(events', 1, Len(events)) = events
    /\ events'[Len(events')].kind = "event"
    /\ IF args.action = "MAP_CONTROL"
       THEN /\ events'[Len(events')].name = "aiden-map"
            /\ events'[Len(events')].detail = <<args.mapCommand>>
       ELSE events'[Len(events')].name = "aiden-report-ui"
    /\ hash' = hash

\* C21: a MAP_CONTROL or OPEN_REPORT call answered while the view is not the
\* map makes the dispatcher navigate to /map and broadcast nothing in that
\* step; the broadcast is recorded in the later step that ends the settle
\* delay, after the navigation. Answered on the map view, the call is broadcast
\* at once, exactly once, with no navigation.
C21_MapNavigatesFirst ==
    [][\A h \in 1..Len(sends) :
          /\ (MapAnswered(h) /\ hash # "#/map") =>
                /\ events' = Append(events, ToMap)
                /\ hash' = "#/map"
                /\ sends'[h].pc = "settle"
          /\ MapSettled(h) =>
                /\ MapBroadcast(sends[h].response.functionCall.args)
                /\ \E i \in 1..Len(events) : events[i] = ToMap
          /\ (MapAnswered(h) /\ hash = "#/map") =>
                /\ MapBroadcast(sends'[h].response.functionCall.args)
                /\ sends'[h].pc = "done"
      ]_vars

\* Two turns were answered with OPEN_REPORT and MAP_CONTROL: the first found
\* another view, navigated and broadcast after the settle delay; the second
\* found the map view and only broadcast.
C21_Witness ==
    /\ Len(sends) = 2
    /\ \A h \in 1..2 : sends[h].pc = "done"
    /\ sends[1].response.functionCall.args.action = "OPEN_REPORT"
    /\ sends[2].response.functionCall.args.action = "MAP_CONTROL"
    /\ Len(events) = 3
    /\ events[1] = ToMap
    /\ events[2].name = "aiden-report-ui"
    /\ events[3].name = "aiden-map"

\* The first tool call of what chat.sendMessage gave, if it gave any.
FirstOf(ext) ==
    IF ext.kind = "response" /\ Len(ext.functionCalls) > 0
    THEN ext.functionCalls[1] ELSE NoCall

\* What this step adds to the recorded navigations and events.
NewEvents == SubSeq(events', Len(events) + 1, Len(events'))

\* The step has the side effects of the tool call and of no other: only a
\* controlApp call records a navigation or an event, one at most, and a
\* NAVIGATE call only a navigation to the route it names; only SET_ALERT_MODE
\* changes the alert flag, only getUserLocation raises the location request,
\* only reportIncident starts a store call, one at most.
EffectsOf(call) ==
    /\ Len(NewEvents) <= IF call.name = "controlApp" THEN 1 ELSE 0
    /\ (call.name = "controlApp" /\ call.args.action = "NAVIGATE") =>
          \A i \in 1..Len(NewEvents) :
              /\ NewEvents[i].kind = "navigate"
              /\ \E r \in validRoutes :
                    NewEvents[i].name = Join(r) /\ Surrounds(call.args.route, r)
    /\ (call.name = "controlApp" /\ call.args.action = "SET_ALERT_MODE") =>
          NewEvents = <<>>
    /\ ~(call.name = "controlApp" /\ call.args.action = "SET_ALERT_MODE") =>
          alertMode' = alertMode
    /\ call.name # "getUserLocation" => locationRequest' = locationRequest
    /\ Len(calls') = Len(calls) + IF call.name = "reportIncident" THEN 1 ELSE 0
    /\ storage' = storage

\* C22: the response a turn acts on carries the first tool call of what the
\* model answered (or none), and the step that takes the answer has the side
\* effects of that one call only; the step that ends a settle delay adds the
\* one broadcast of the same call.
C22_FirstCallOnly ==
    [][\A h \in 1..Len(sends) :
          /\ (sends[h].pc = "chat" /\ sends'[h].pc # "chat") =>
                /\ \E ext \in ChatOutcomes :
                      sends'[h].response.functionCall = FirstOf(ext)
                /\ EffectsOf(sends'[h].response.functionCall)
          /\ (sends[h].pc = "settle" /\ sends'[h].pc # "settle") =>
                /\ sends'[h].response = sends[h].response
                /\ Len(NewEvents) = 1
                /\ NewEvents[1].kind = "event"
                /\ alertMode' = alertMode
                /\ calls' = calls
                /\ storage' = storage
      ]_vars

\* The model answered with two NAVIGATE calls, to /contacts and to /settings:
\* the turn has gone to /contacts and nowhere else.
C22_Witness ==
    /\ Len(sends) = 1
    /\ sends[1].pc = "done"
    /\ sends[1].response.functionCall = Navigate(Chars("/contacts"))
    /\ hash = "#/contacts"
    /\ Len(events) = 1
    /\ events[1].name = "/contacts"

\* Turn h takes, in this step, an answer that carries a SET_ALERT_MODE call.
AlertAnswered(h) ==
    /\ sends[h].pc = "chat"
    /\ sends'[h].pc # "chat"
    /\ sends'[h].response.functionCall.name = "controlApp"
    /\ sends'[h].response.functionCall.args.action = "SET_ALERT_MODE"

\* C23: a SET_ALERT_MODE call sets the alert flag to true when alertActive is
\* the boolean true and to false when it is anything else or absent; it
\* navigates nowhere and broadcasts nothing; the narration is the one message
\* appended when there is one, else the acknowledgement 'Red Alert activated.'
\* or 'Alerts cancelled.'.
C23_AlertFollowsBoolean ==
    [][\A h \in 1..Len(sends) :
          AlertAnswered(h) =>
              LET text == sends'[h].response.text
                  on == sends'[h].response.functionCall.args.alertActive = "true"
                  shown == IF text # "" THEN text
                           ELSE IF on THEN "Red Alert activated."
                           ELSE "Alerts cancelled."
              IN  /\ alertMode' = on
                  /\ hash' = hash
                  /\ events' = events
                  /\ calls' = calls
                  /\ sends'[h].pc = "done"
                  /\ messages' = Append(messages, Message(shown, "ai"))
      ]_vars

\* The alert was raised by a call with alertActive true and cancelled by a
\* call whose alertActive is the string 'true'.
C23_Witness ==
    /\ Len(sends) = 2
    /\ \A h \in 1..2 : sends[h].pc = "done"
    /\ sends[1].response = ChatResponse(NoText,
          ControlApp([NoArgs EXCEPT !.action = "SET_ALERT_MODE", !.alertActive = "true"]),
          FALSE)
    /\ sends[2].response.functionCall.args.action = "SET_ALERT_MODE"
    /\ sends[2].response.functionCall.args.alertActive = "'true'"
    /\ messages[Len(messages) - 2] = Message("Red Alert activated.", "ai")
    /\ messages[Len(messages)] = Message("Alerts cancelled.", "ai")
    /\ ~alertMode


\* The map view shows the persisted reports, and nothing is under way.
Shown == mapPage.reports = ReadSlot(REPORTS, storage)
MapIdle == calls = <<>> /\ mapPage.loads = <<>>

\* C24: while the map view is mounted, every completed createReport or
\* verifyReport is followed by a reload, so the view comes to show exactly the
\* persisted reports; with several reloads in flight the last one applied is
\* not older than the last write: once nothing is under way, the view shows
\* what is stored.
C24_MapShowsPersisted ==
    /\ [](MapIdle => Shown)
    /\ (~Shown ~> Shown)

\* A report was created and one was verified, every reload has been applied,
\* and the view shows both changes.
C24_Witness ==
    /\ mapPage.mounted
    /\ MapIdle
    /\ started = MaxCalls
    /\ \E i \in 1..Len(mapPage.reports) : mapPage.reports[i].id \in issued
    /\ \E i \in 1..Len(mapPage.reports) :
            mapPage.reports[i].id = "r2" /\ mapPage.reports[i].verified


\* The report mutation c settles in this step.
ReportMutationSettles(c) ==
    /\ calls[c].op \in {"createReport", "verifyReport"}
    /\ calls[c].pc = "read"
    /\ calls' = Remove(calls, c)

\* C25: within one tab a report mutation reads and writes in one step, so a
\* mutation that settles while others are in flight keeps every change made
\* before it: createReport appends its report to the reports stored at that
\* moment, verifyReport keeps the stored reports and sets the one flag, and no
\* report loses its verified flag.
C25_NoLostUpdate ==
    [][\A c \in 1..Len(calls) :
          ReportMutationSettles(c) =>
              LET before == ReadSlot(REPORTS, ApiInit(storage))
                  after == ReadSlot(REPORTS, storage')
              IN  /\ \A i \in 1..Len(before) :
                        /\ i <= Len(after)
                        /\ after[i].id = before[i].id
                        /\ before[i].verified => after[i].verified
                  /\ calls[c].op = "createReport" =>
                        /\ Len(after) = Len(before) + 1
                        /\ after[Len(after)].id = last'.result.id
                        /\ after[Len(after)].id \notin issued
                  /\ calls[c].op = "verifyReport" =>
                        /\ Len(after) = Len(before)
                        /\ \A i \in 1..Len(after) :
                              after[i].id = calls[c].arg => after[i].verified
      ]_vars

\* Two reports were created and a stored one was verified; the last mutation
\* has settled and the collection holds all three changes.
C25_Witness ==
    /\ calls = <<>>
    /\ started = MaxCalls
    /\ LET reports == ReadSlot(REPORTS, storage)
       IN  /\ Len(reports) = Len(Fixture(REPORTS)) + 2
           /\ \E i \in 1..Len(reports) : reports[i].id = "r2" /\ reports[i].verified
           /\ reports[Len(reports)].id \in issued
           /\ reports[Len(reports) - 1].id \in issued


\* handleLocationResponse l takes the gateway's answer in this step.
FollowUpAnswered(l) ==
    /\ l <= Len(locations')
    /\ locations[l].pc = "chat"
    /\ locations'[l].pc = "done"

\* C26: the answer to the follow-up call after a location grant or denial is
\* used for its text only: whatever tool call it carries, the step navigates
\* nowhere, dispatches no event, starts no store call and writes nothing, sets
\* no timer, leaves the alert flag, the location request and the coordinates
\* alone, and appends the text when there is one.
C26_FollowUpTextOnly ==
    [][\A l \in 1..Len(locations) :
          FollowUpAnswered(l) =>
              LET text == locations'[l].response.text
              IN  /\ hash' = hash
                  /\ events' = events
                  /\ timers' = timers
                  /\ storage' = storage
                  /\ calls' = calls
                  /\ started' = started
                  /\ alertMode' = alertMode
                  /\ locationRequest' = locationRequest
                  /\ userCoords' = userCoords
                  /\ sends' = sends
                  /\ messages' = IF text = "" THEN messages
                                 ELSE Append(messages, Message(text, "ai"))
      ]_vars

\* After a grant, the follow-up answer carried a reportIncident call: nothing
\* was filed and no event was dispatched.
C26_Witness ==
    \E l \in 1..Len(locations) :
        /\ locations[l].pc = "done"
        /\ locations[l].path = "resolved"
        /\ locations[l].response.functionCall.name = "reportIncident"
        /\ storage = [k \in KEYS |-> Absent]
        /\ started = 0
        /\ events = <<>>


\* C27 (as claimed): the intensity of the simulation view stays within 0..100
\* whatever the timer, the slider, the buttons and the AI commands do.
C27_IntensityInRange ==
    simulation.mounted =>
        simulation.intensity >= 0 /\ simulation.intensity <= Tenths(100)

\* C28: an AI simulation command changes only its own variable. START and
\* STOP set isPlaying and leave the intensity; RESET sets the intensity to 0
\* and leaves isPlaying; SET_INTENSITY with a value sets the intensity to it
\* and leaves isPlaying; SET_INTENSITY without a value and any other command
\* change neither.
C28_CommandFrame ==
    [][simulation'.received # simulation.received =>
          LET detail == simulation'.detail
              cmd == detail.command
              was == simulation
              now == simulation'
              same == now.isPlaying = was.isPlaying /\ now.intensity = was.intensity
          IN  /\ cmd = "START" => now.isPlaying /\ now.intensity = was.intensity
              /\ cmd = "STOP" => ~now.isPlaying /\ now.intensity = was.intensity
              /\ cmd = "RESET" => now.intensity = 0 /\ now.isPlaying = was.isPlaying
              /\ (cmd = "SET_INTENSITY" /\ detail.intensity.given) =>
                    /\ now.intensity = detail.intensity.value
                    /\ now.isPlaying = was.isPlaying
              /\ (cmd = "SET_INTENSITY" /\ ~detail.intensity.given) => same
              /\ cmd \notin {"START", "STOP", "RESET", "SET_INTENSITY"} => same
      ]_vars

\* START, sent with an intensity, was handled at intensity 50.3, which the
\* slider had set and no command has: the simulation plays, and the intensity
\* is as it was.
C28_Witness ==
    /\ simulation.mounted
    /\ simulation.received > 0
    /\ simulation.detail.command = "START"
    /\ simulation.detail.intensity = Given(Tenths(100))
    /\ simulation.isPlaying
    /\ simulation.intensity = Tenths(50) + 3


\* The read c settles in this step.
ReadSettles(c) ==
    /\ calls[c].op \in Getters
    /\ calls[c].pc = "read"
    /\ calls' = Remove(calls, c)

\* C29: a collection is seeded only while its slot is absent. A read leaves
\* every slot that is present exactly as it is stored, whichever collection is
\* read; and once the stored contacts are the empty list, getContacts returns
\* the empty list and the fixtures are not restored.
C29_SeededOnlyWhenAbsent ==
    [][\A c \in 1..Len(calls) :
          ReadSettles(c) =>
              /\ \A k \in KEYS : storage[k].present => storage'[k] = storage[k]
              /\ \A k \in KEYS :
                    ~storage[k].present => ReadSlot(k, storage') = Fixture(k)
              /\ (/\ calls[c].op = "getContacts"
                  /\ storage[CONTACTS].present
                  /\ ReadSlot(CONTACTS, storage) = <<>>) =>
                        /\ last'.result = <<>>
                        /\ ReadSlot(CONTACTS, storage') = <<>>
      ]_vars

\* Both fixture contacts were deleted and getContacts was called after that:
\* it returned the empty list, and the empty list is what is stored.
C29_Witness ==
    /\ last.op = "getContacts"
    /\ last.result = <<>>
    /\ storage[CONTACTS].present
    /\ ReadSlot(CONTACTS, storage) = <<>>
    /\ started = MaxCalls


\* A fetchNews of the news feed completes in this step.
FetchCompletes == newsFeed.pc # "idle" /\ newsFeed'.pc = "idle"

\* C30: after every completed fetchNews the live indicator is set exactly
\* when the live fetch returned a list that is not empty, and then that list
\* is displayed; when it returned nothing or failed, the stored fixture news
\* are displayed and the indicator is off; isLoading is false either way.
C30_LiveIndicator ==
    [][FetchCompletes =>
          LET feed == newsFeed'
          IN  /\ ~feed.isLoading
              /\ feed.isLive = (Len(feed.liveNews) > 0)
              /\ feed.isLive => feed.news = feed.liveNews
              /\ ~feed.isLive =>
                    /\ feed.news = ReadSlot(NEWS, storage')
                    /\ feed.news = Fixture(NEWS)
      ]_vars

\* With a client, the feed was refreshed and the live fetch gave nothing or
\* failed: the fixture news are shown, the indicator is off, nothing loads.
C30_Witness ==
    /\ newsFeed.mounted
    /\ apiKey
    /\ newsFeed.pc = "idle"
    /\ newsFeed.fetches = 2
    /\ ~newsFeed.isLive
    /\ ~newsFeed.isLoading
    /\ newsFeed.news = Fixture(NEWS)
    /\ storage[NEWS].present

=============================================================================
